---- MODULE Spec2Model ----
(***************************************************************************)
(* A model of the natural-language action pipeline of the gym application: *)
(* the response validator (lib/parsing/schema), the trainer-scoped         *)
(* executor (lib/parsing/actions), the admin free-form executor and its    *)
(* undo (lib/admin-actions, api/admin/undo) and the session routes.        *)
(*                                                                         *)
(* Each subsystem has its own specification (SpecParse, SpecRecur, ...):   *)
(* the variables of the other subsystems stay at their idle values.        *)
(***************************************************************************)
EXTENDS Integers, Sequences, FiniteSets, TLC

VARIABLES
    responseText,   \* the raw model reply handed to parseClaudeResponse
    parseOut,       \* what parseClaudeResponse gave back to its caller
    athletes,       \* the Athlete table
    sessions,       \* the Session table
    nextId,         \* the number of ids the store has handed out
    now,            \* the clock: new Date() / Date.now()
    recur,          \* createRecurringSessions: the call in progress
    users,          \* the User table
    trainers,       \* the Trainer table
    checkIns,       \* the CheckIn table
    exec,           \* executeAction: the calls made and the last call's result
    reqs,           \* the requests to the session routes that are in flight
    admin           \* executeAdminAction and the undo endpoint: the last call

parseVars == <<responseText, parseOut>>
otherTables == <<users, trainers, checkIns>>
dbVars == <<athletes, sessions, nextId, now, otherTables>>
recurVars == <<recur>>
callVars == <<exec, reqs, admin>>

vars == <<responseText, parseOut, athletes, sessions, nextId, now, recur,
          users, trainers, checkIns, exec, reqs, admin>>

(***************************************************************************)
(* JSON values, as JSON.parse produces them.  Every value carries its type *)
(* tag; an object carries a function from its keys to values, so that a    *)
(* missing key is a key outside the domain.                                *)
(***************************************************************************)
JNull == [t |-> "null"]
JStr(s) == [t |-> "string", v |-> s]
JNum(n) == [t |-> "number", v |-> n]
JBool(b) == [t |-> "boolean", v |-> b]
JArr == [t |-> "array"]
JObj(fields) == [t |-> "object", f |-> fields]

Has(o, k) == k \in DOMAIN o.f

\* JavaScript's undefined, for an optional string of a result.
Undefined == "<undefined>"
\* JavaScript's undefined, for an optional descriptor of a result.
NoValue == [t |-> "undefined"]

\* A date-time string, by its fields: an ISO 8601 string (month mo counted from
\* 0 = January 2024, day of the month, slot of the day), a string that is no
\* date, and undefined.
IsoString(mo, dom, slot) == [iso |-> TRUE, mo |-> mo, dom |-> dom, slot |-> slot]
GarbageString == [iso |-> FALSE, mo |-> 0, dom |-> 0, slot |-> 0]
UndefinedDateString == [iso |-> FALSE, mo |-> -1, dom |-> -1, slot |-> -1]

(***************************************************************************)
(* The reply text is a sequence of tokens: whitespace, a bare ``` fence,   *)
(* a ```json fence (with its line break), prose, or the text of one JSON   *)
(* value.                                                                  *)
(***************************************************************************)
TokWs == [k |-> "ws"]
TokFence == [k |-> "fence"]
TokFenceJson == [k |-> "fencejson"]
TokProse == [k |-> "prose"]
TokJson(j) == [k |-> "json", v |-> j]

RECURSIVE TrimLeft(_)
TrimLeft(s) ==
    IF s # <<>> /\ Head(s).k = "ws" THEN TrimLeft(Tail(s)) ELSE s

RECURSIVE TrimRight(_)
TrimRight(s) ==
    IF s # <<>> /\ s[Len(s)].k = "ws" THEN TrimRight(SubSeq(s, 1, Len(s) - 1)) ELSE s

\* String.prototype.trim
Trim(s) == TrimRight(TrimLeft(s))

\* jsonStr.startsWith('```')
StartsWithFence(s) == s # <<>> /\ Head(s).k \in {"fence", "fencejson"}

\* .replace(/```json?\n?/g, ''): the pattern needs the letters "jso" after the
\* backticks, so it removes every ```json fence and no bare ``` fence.
ReplaceFenceJson(s) == SelectSeq(s, LAMBDA tok : tok.k # "fencejson")

\* .replace(/```$/g, ''): a bare fence at the very end of the string.
ReplaceTrailingFence(s) ==
    IF s # <<>> /\ s[Len(s)].k = "fence" THEN SubSeq(s, 1, Len(s) - 1) ELSE s

StripFences(text) ==
    LET jsonStr == Trim(text)
    IN  IF StartsWithFence(jsonStr)
        THEN Trim(ReplaceTrailingFence(ReplaceFenceJson(jsonStr)))
        ELSE jsonStr

\* JSON.parse: the string must be exactly one JSON value (whitespace around it
\* is allowed); anything else is a SyntaxError.
JsonParse(s) ==
    LET body == Trim(s)
    IN  IF Len(body) = 1 /\ body[1].k = "json"
        THEN [ok |-> TRUE, value |-> body[1].v]
        ELSE [ok |-> FALSE, value |-> JNull]

(***************************************************************************)
(* The zod schemas.  A z.string() accepts a string; .optional() also a     *)
(* missing key; .nullable() also null.                                     *)
(***************************************************************************)
RecurrencePatterns == {"DAILY", "WEEKLY", "BIWEEKLY", "MONTHLY"}

Actions ==
    {"CREATE_SESSION", "CREATE_RECURRING_SESSION", "UPDATE_SESSION",
     "CANCEL_SESSION", "CREATE_ATHLETE", "QUERY", "UNKNOWN"}

DefaultDuration == 60

ZString(o, k) == Has(o, k) /\ o.f[k].t = "string"
ZBoolean(o, k) == Has(o, k) /\ o.f[k].t = "boolean"
ZOptionalString(o, k) == ~Has(o, k) \/ o.f[k].t = "string"
ZNullableOptionalString(o, k) == ~Has(o, k) \/ o.f[k].t \in {"null", "string"}

ParsedSessionSchema(v) ==
    /\ v.t = "object"
    /\ ZNullableOptionalString(v, "athleteId")
    /\ ZString(v, "athleteName")
    /\ ZBoolean(v, "isNewAthlete")
    /\ ZString(v, "scheduledAt")
    /\ (~Has(v, "duration") \/ v.f["duration"].t = "number")
    /\ \/ ~Has(v, "recurrencePattern")
       \/ v.f["recurrencePattern"].t = "null"
       \/ /\ v.f["recurrencePattern"].t = "string"
          /\ v.f["recurrencePattern"].v \in RecurrencePatterns
    /\ ZNullableOptionalString(v, "recurrenceEndDate")

ParsedAthleteSchema(v) ==
    /\ v.t = "object"
    /\ ZString(v, "firstName")
    /\ ZString(v, "lastName")
    /\ ZOptionalString(v, "email")

\* confidence: z.number().min(0).max(1); the model counts confidence in tenths.
ConfidenceNoRange(v) == Has(v, "confidence") /\ v.f["confidence"].t = "number"

ConfidenceSchema(v) ==
    /\ Has(v, "confidence")
    /\ v.f["confidence"].t = "number"
    /\ v.f["confidence"].v >= 0
    /\ v.f["confidence"].v <= 10

ParseResultSchema(v) ==
    /\ v.t = "object"
    /\ ZString(v, "action")
    /\ v.f["action"].v \in Actions
    /\ ConfidenceSchema(v)
    /\ Has(v, "data")
    /\ v.f["data"].t = "object"
    /\ (Has(v.f["data"], "session") => ParsedSessionSchema(v.f["data"].f["session"]))
    /\ (Has(v.f["data"], "athlete") => ParsedAthleteSchema(v.f["data"].f["athlete"]))
    /\ ZNullableOptionalString(v, "clarificationNeeded")
    /\ ZString(v, "humanReadableSummary")

\* value ?? undefined, for a nullable optional string
OrUndefined(o, k) ==
    IF Has(o, k) /\ o.f[k].t = "string" THEN o.f[k].v ELSE Undefined

\* value ?? undefined, for a nullable optional date string
OrUndefinedDate(o, k) ==
    IF Has(o, k) /\ o.f[k].t = "string" THEN o.f[k].v ELSE UndefinedDateString

\* The session descriptor of the result (schema lines 60-70).
SessionOf(s) ==
    [t |-> "session",
     athleteId |-> OrUndefined(s, "athleteId"),
     athleteName |-> s.f["athleteName"].v,
     isNewAthlete |-> s.f["isNewAthlete"].v,
     scheduledAt |-> s.f["scheduledAt"].v,
     duration |-> IF Has(s, "duration") THEN s.f["duration"].v ELSE DefaultDuration,
     recurrencePattern |-> OrUndefined(s, "recurrencePattern"),
     recurrenceEndDate |-> OrUndefinedDate(s, "recurrenceEndDate")]

AthleteOf(a) ==
    [t |-> "athlete",
     firstName |-> a.f["firstName"].v,
     lastName |-> a.f["lastName"].v,
     email |-> OrUndefined(a, "email")]

\* The validated result: zod strips the keys the schema does not name, so a
\* "query" key of data never reaches the result.
ValidatedResult(v) ==
    [action |-> v.f["action"].v,
     confidence |-> v.f["confidence"].v,
     data |-> [session |-> IF Has(v.f["data"], "session")
                           THEN SessionOf(v.f["data"].f["session"])
                           ELSE NoValue,
               athlete |-> IF Has(v.f["data"], "athlete")
                           THEN AthleteOf(v.f["data"].f["athlete"])
                           ELSE NoValue],
     clarificationNeeded |-> OrUndefined(v, "clarificationNeeded"),
     humanReadableSummary |-> v.f["humanReadableSummary"].v]

ParseFailedMessage == "Failed to parse the response. Please try again."

\* The catch block's result.
FallbackResult ==
    [action |-> "UNKNOWN",
     confidence |-> 0,
     data |-> [session |-> NoValue, athlete |-> NoValue],
     clarificationNeeded |-> ParseFailedMessage,
     humanReadableSummary |-> "Error parsing request"]

\* The try block: its value, or the exception it raised.
ParseTry(text) ==
    LET parsed == JsonParse(StripFences(text))
    IN  IF ~parsed.ok THEN [threw |-> TRUE, value |-> NoValue]
        ELSE IF ~ParseResultSchema(parsed.value)
             THEN [threw |-> TRUE, value |-> NoValue]
             ELSE [threw |-> FALSE, value |-> ValidatedResult(parsed.value)]

\* parseClaudeResponse: what the caller observes.
parseClaudeResponse(text) ==
    LET r == ParseTry(text)
    IN  [returned |-> TRUE,
         threw |-> FALSE,
         result |-> IF r.threw THEN FallbackResult ELSE r.value]

(***************************************************************************)
(* The idle values of the store and of the handlers, for the               *)
(* specifications that do not use them.                                    *)
(***************************************************************************)
NoDate == [day |-> 0, slot |-> 0]

DbEmpty ==
    /\ athletes = {}
    /\ sessions = {}
    /\ users = {}
    /\ trainers = {}
    /\ checkIns = {}
    /\ nextId = 0
    /\ now = NoDate

RecurIdleState == [pc |-> "idle"]

RecurIdle == recur = RecurIdleState

ExecIdleState == [pc |-> "idle", calls |-> 0]

AdminIdleState == [pc |-> "idle"]

\* The requests to the session routes: how many have started, and the two
\* that may be in flight.
ReqSlots == {"r1", "r2"}

FreeSlot == [pc |-> "free"]

ReqsIdleState == [started |-> 0, slot |-> [i \in ReqSlots |-> FreeSlot]]

\* No call of the executors and no request to the session routes is in progress.
CallsIdle ==
    /\ exec = ExecIdleState
    /\ reqs = ReqsIdleState
    /\ admin = AdminIdleState

(***************************************************************************)
(* The replies the hosted model may give: every combination of the         *)
(* alternatives below for the five keys of the reply object, in each of    *)
(* the wrappings, and some texts that hold no JSON object at all.          *)
(***************************************************************************)
Absent == [t |-> "absent"]

\* The object with the keys of choice that are not Absent.
MkObj(choice) ==
    JObj([k \in {x \in DOMAIN choice : choice[x].t # "absent"} |-> choice[k]])

ActionAlts ==
    {Absent, JStr("CREATE_SESSION"), JStr("UNKNOWN"), JStr("DELETE_ALL"), JNum(1)}

ConfidenceAlts == {Absent, JNum(0), JNum(9), JNum(10), JNum(11), JNum(-1), JStr("high")}

ClarificationAlts == {JNull, JStr("Which John do you mean?"), JNum(0)}

SummaryAlts == {Absent, JStr("Schedule John Smith"), JNull}

SessionAlts ==
    {MkObj([athleteId |-> JStr("a1"), athleteName |-> JStr(<<"John", "Smith">>),
            isNewAthlete |-> JBool(FALSE), scheduledAt |-> JStr(IsoString(0, 16, 1)),
            duration |-> JNum(45), recurrencePattern |-> JStr("WEEKLY"),
            recurrenceEndDate |-> JStr(IsoString(1, 16, 0))]),
     MkObj([athleteId |-> Absent, athleteName |-> JStr(<<"Ann", "Lee">>),
            isNewAthlete |-> JBool(TRUE), scheduledAt |-> JStr(IsoString(0, 16, 1)),
            duration |-> Absent, recurrencePattern |-> Absent,
            recurrenceEndDate |-> Absent]),
     MkObj([athleteId |-> JNull, athleteName |-> JStr(<<"Ann", "Lee">>),
            isNewAthlete |-> JBool(TRUE), scheduledAt |-> JStr(IsoString(0, 16, 1)),
            duration |-> JNum(60), recurrencePattern |-> JNull,
            recurrenceEndDate |-> JNull]),
     MkObj([athleteId |-> JStr("a1"), athleteName |-> JStr(<<"John", "Smith">>),
            isNewAthlete |-> JBool(FALSE), scheduledAt |-> JStr(IsoString(0, 16, 1)),
            duration |-> JNum(60), recurrencePattern |-> JStr("YEARLY"),
            recurrenceEndDate |-> Absent]),
     MkObj([athleteId |-> JStr("a1"), athleteName |-> Absent,
            isNewAthlete |-> JBool(FALSE), scheduledAt |-> JStr(IsoString(0, 16, 1)),
            duration |-> JNum(60), recurrencePattern |-> Absent,
            recurrenceEndDate |-> Absent]),
     MkObj([athleteId |-> JStr("a1"), athleteName |-> JStr(<<"John", "Smith">>),
            isNewAthlete |-> JStr("no"), scheduledAt |-> JStr(IsoString(0, 16, 1)),
            duration |-> JNum(60), recurrencePattern |-> Absent,
            recurrenceEndDate |-> Absent]),
     MkObj([athleteId |-> JNum(7), athleteName |-> JStr(<<"John", "Smith">>),
            isNewAthlete |-> JBool(FALSE), scheduledAt |-> JNull,
            duration |-> JNull, recurrencePattern |-> Absent,
            recurrenceEndDate |-> JNum(3)]),
     JStr(<<"John", "Smith">>)}

AthleteAlts ==
    {MkObj([firstName |-> JStr("Ann"), lastName |-> JStr("Lee"), email |-> Absent]),
     MkObj([firstName |-> JStr("Ann"), lastName |-> JStr("Lee"),
            email |-> JStr("ann@x.com")]),
     MkObj([firstName |-> JStr("Ann"), lastName |-> Absent, email |-> Absent]),
     MkObj([firstName |-> JStr("Ann"), lastName |-> JStr("Lee"), email |-> JNull]),
     JArr}

QueryAlt ==
    MkObj([queryType |-> JStr("SESSIONS_LIST"), filters |-> MkObj([status |-> JStr("all")]),
           description |-> JStr("Sessions")])

DataAlts ==
    {Absent, JNull, JStr("none"), JArr}
    \cup {MkObj([session |-> s, athlete |-> Absent, query |-> Absent]) : s \in SessionAlts \cup {Absent}}
    \cup {MkObj([session |-> Absent, athlete |-> a, query |-> Absent]) : a \in AthleteAlts}
    \cup {MkObj([session |-> Absent, athlete |-> Absent, query |-> QueryAlt])}

ReplyObjects ==
    {MkObj([action |-> a, confidence |-> c, data |-> d,
            clarificationNeeded |-> q, humanReadableSummary |-> h]) :
        a \in ActionAlts, c \in ConfidenceAlts, d \in DataAlts,
        q \in ClarificationAlts, h \in SummaryAlts}

\* Replies that differ in action and confidence only.
CoreObjects ==
    {MkObj([action |-> a, confidence |-> c, data |-> MkObj([session |-> Absent]),
            clarificationNeeded |-> Absent,
            humanReadableSummary |-> JStr("Schedule John Smith")]) :
        a \in ActionAlts, c \in ConfidenceAlts}

\* The ways a reply wraps its JSON value.
Wrappings(j) ==
    {<<TokWs, TokJson(j), TokWs>>,
     <<TokFenceJson, TokJson(j), TokFence>>,
     <<TokWs, TokFenceJson, TokJson(j), TokWs, TokFence, TokWs>>,
     <<TokFence, TokJson(j), TokFence>>,
     <<TokProse, TokJson(j)>>,
     <<TokJson(j), TokJson(j)>>}

ReplyTexts ==
    {<<TokJson(j)>> : j \in ReplyObjects}
    \cup UNION {Wrappings(j) : j \in CoreObjects}
    \cup {<<>>, <<TokWs>>, <<TokProse>>, <<TokFenceJson, TokFence>>,
          <<TokJson(JNull)>>, <<TokJson(JArr)>>, <<TokJson(JNum(4))>>,
          <<TokJson(JStr("ok"))>>}

Pending == [returned |-> FALSE, threw |-> FALSE, result |-> NoValue]

ParseIdle ==
    /\ responseText = <<>>
    /\ parseOut = Pending

InitParse ==
    /\ responseText \in ReplyTexts
    /\ parseOut = Pending
    /\ DbEmpty
    /\ RecurIdle
    /\ CallsIdle

\* A caller hands the reply to parseClaudeResponse.
ParseCall ==
    /\ parseOut = Pending
    /\ parseOut' = parseClaudeResponse(responseText)
    /\ UNCHANGED <<responseText, dbVars, recurVars, callVars>>

NextParse == ParseCall

SpecParse == InitParse /\ [][NextParse]_vars

(***************************************************************************)
(* C1.  parseClaudeResponse never throws: for every reply text that holds  *)
(* no single JSON value, or whose JSON value breaks the schema (not an     *)
(* object, bad action, confidence outside [0,1], missing summary, bad      *)
(* session or athlete shape, bad clarification), the caller gets the       *)
(* canonical fallback: action UNKNOWN, confidence 0, empty data and a      *)
(* non-empty clarificationNeeded.                                          *)
(***************************************************************************)
JsonTokens(text) == SelectSeq(text, LAMBDA tok : tok.k = "json")

NotValidJson(text) ==
    \/ Len(JsonTokens(text)) # 1
    \/ \E i \in 1..Len(text) : text[i].k = "prose"

IsStr(o, k) == k \in DOMAIN o.f /\ o.f[k].t = "string"

BadSessionShape(s) ==
    \/ s.t # "object"
    \/ ~IsStr(s, "athleteName")
    \/ ~IsStr(s, "scheduledAt")
    \/ "isNewAthlete" \notin DOMAIN s.f
    \/ s.f["isNewAthlete"].t # "boolean"
    \/ ("athleteId" \in DOMAIN s.f /\ s.f["athleteId"].t \notin {"string", "null"})
    \/ ("duration" \in DOMAIN s.f /\ s.f["duration"].t # "number")
    \/ ("recurrenceEndDate" \in DOMAIN s.f
            /\ s.f["recurrenceEndDate"].t \notin {"string", "null"})
    \/ /\ "recurrencePattern" \in DOMAIN s.f
       /\ s.f["recurrencePattern"] \notin
            {JNull, JStr("DAILY"), JStr("WEEKLY"), JStr("BIWEEKLY"), JStr("MONTHLY")}

BadAthleteShape(a) ==
    \/ a.t # "object"
    \/ ~IsStr(a, "firstName")
    \/ ~IsStr(a, "lastName")
    \/ ("email" \in DOMAIN a.f /\ a.f["email"].t # "string")

ViolatesSchema(j) ==
    \/ j.t # "object"
    \/ /\ j.t = "object"
       /\ \/ ~IsStr(j, "action")
          \/ j.f["action"].v \notin
                {"CREATE_SESSION", "CREATE_RECURRING_SESSION", "UPDATE_SESSION",
                 "CANCEL_SESSION", "CREATE_ATHLETE", "QUERY", "UNKNOWN"}
          \/ "confidence" \notin DOMAIN j.f
          \/ j.f["confidence"].t # "number"
          \/ j.f["confidence"].v < 0
          \/ j.f["confidence"].v > 10
          \/ ~IsStr(j, "humanReadableSummary")
          \/ "data" \notin DOMAIN j.f
          \/ j.f["data"].t # "object"
          \/ ("clarificationNeeded" \in DOMAIN j.f
                /\ j.f["clarificationNeeded"].t \notin {"string", "null"})
          \/ /\ "session" \in DOMAIN j.f["data"].f
             /\ BadSessionShape(j.f["data"].f["session"])
          \/ /\ "athlete" \in DOMAIN j.f["data"].f
             /\ BadAthleteShape(j.f["data"].f["athlete"])

InvalidReply(text) ==
    NotValidJson(text) \/ ViolatesSchema(JsonTokens(text)[1].v)

IsCanonicalFallback(r) ==
    /\ r.action = "UNKNOWN"
    /\ r.confidence = 0
    /\ r.data = [session |-> NoValue, athlete |-> NoValue]
    /\ r.clarificationNeeded \notin {Undefined, ""}

C1_ParseNeverThrows ==
    parseOut # Pending =>
        /\ parseOut.returned
        /\ ~parseOut.threw
        /\ (InvalidReply(responseText) => IsCanonicalFallback(parseOut.result))

\* A reply whose only fault is a confidence above 1 has been parsed to the fallback.
C1_Witness ==
    /\ parseOut # Pending
    /\ ~NotValidJson(responseText)
    /\ LET j == JsonTokens(responseText)[1].v
       IN  /\ j.t = "object"
           /\ "confidence" \in DOMAIN j.f
           /\ j.f["confidence"] = JNum(11)
           /\ IsStr(j, "action") /\ j.f["action"].v = "CREATE_SESSION"
           /\ IsStr(j, "humanReadableSummary")
    /\ parseOut.result = FallbackResult

(***************************************************************************)
(* Dates.  A Date is a local wall-clock instant: a day number (day 1 is    *)
(* 1 January 2024) and a slot of the day; the last slot stands for         *)
(* 23:59:59.999.  Daylight-saving shifts are not modelled.  An ISO 8601    *)
(* date-time string is given by its fields.                                *)
(***************************************************************************)
SlotsPerDay == 3
LastSlot == SlotsPerDay - 1

InvalidDate == [day |-> -1, slot |-> 0]

IsLeap(y) == y % 4 = 0 /\ (y % 100 # 0 \/ y % 400 = 0)

\* The length of month mo, counted from 0 = January 2024.
DaysInMonth(mo) ==
    LET m == mo % 12
        y == 2024 + (mo \div 12)
    IN  IF m = 1 THEN (IF IsLeap(y) THEN 29 ELSE 28)
        ELSE IF m \in {3, 5, 8, 10} THEN 30 ELSE 31

RECURSIVE DaysBefore(_)
DaysBefore(mo) == IF mo <= 0 THEN 0 ELSE DaysBefore(mo - 1) + DaysInMonth(mo - 1)

RECURSIVE MonthOfDay(_, _)
MonthOfDay(day, mo) ==
    IF day <= DaysBefore(mo + 1) THEN mo ELSE MonthOfDay(day, mo + 1)

\* Date.prototype.getMonth (with the year folded in) and getDate
GetMonth(d) == MonthOfDay(d.day, 0)
GetDate(d) == d.day - DaysBefore(GetMonth(d))

\* new Date(string)
NewDate(str) ==
    IF str.iso /\ str.dom >= 1 /\ str.dom <= DaysInMonth(str.mo)
    THEN [day |-> DaysBefore(str.mo) + str.dom, slot |-> str.slot]
    ELSE InvalidDate

IsValidDate(d) == d.day >= 1

\* date.valueOf(): instants compare by their time value.
TimeValue(d) == d.day * SlotsPerDay + d.slot

\* a <= b on Dates; false when either is an Invalid Date (NaN).
DateLe(a, b) == IsValidDate(a) /\ IsValidDate(b) /\ TimeValue(a) <= TimeValue(b)

\* date.setDate(date.getDate() + n)
SetDatePlus(d, n) == [d EXCEPT !.day = d.day + n]

\* date.setMonth(date.getMonth() + 1): the day of the month is kept, and a day
\* past the end of the next month runs over into the month after it.
SetMonthPlusOne(d) ==
    [d EXCEPT !.day = DaysBefore(GetMonth(d) + 1) + GetDate(d)]

advanceDate(date, pattern) ==
    CASE pattern = "DAILY" -> SetDatePlus(date, 1)
      [] pattern = "WEEKLY" -> SetDatePlus(date, 7)
      [] pattern = "BIWEEKLY" -> SetDatePlus(date, 14)
      [] pattern = "MONTHLY" -> SetMonthPlusOne(date)
      [] OTHER -> date

HorizonDays == 90

\* new Date(Date.now() + 90 * 24 * 60 * 60 * 1000)
DefaultEndDate(clock) == [clock EXCEPT !.day = clock.day + HorizonDays]

(***************************************************************************)
(* The store.  Ids are fresh strings; a create of a Session fails on a     *)
(* missing Athlete (foreign key) and on an Invalid Date.                   *)
(***************************************************************************)
TrainerIds == {"t1", "t2"}

NewId(prefix, n) == prefix \o ToString(n)

Lower(w) ==
    CASE w = "John" -> "john" [] w = "Smith" -> "smith"
      [] w = "Ann" -> "ann"   [] w = "Lee" -> "lee"
      [] w = "Unknown" -> "unknown"
      [] w = "Joann" -> "joann" [] w = "Jo" -> "jo"
      [] OTHER -> w

RECURSIVE Join(_)
Join(ws) ==
    IF ws = <<>> THEN ""
    ELSE IF Len(ws) = 1 THEN ws[1] ELSE ws[1] \o " " \o Join(Tail(ws))

\* sessionData.athleteName.split(' ')[0]; a name is the sequence of its words.
FirstNameOf(name) == IF name = <<>> THEN "" ELSE name[1]

\* nameParts.slice(1).join(' ') || 'Unknown'
LastNameOf(name) == IF Len(name) <= 1 THEN "Unknown" ELSE Join(Tail(name))

\* `${first.toLowerCase()}.${last.toLowerCase()}.${Date.now()}@placeholder.com`
PlaceholderEmail(first, last, clock) ==
    [first |-> Lower(first), last |-> Lower(last), stamp |-> clock,
     domain |-> "placeholder.com"]

StoredEmail(first, last) ==
    [first |-> first, last |-> last, stamp |-> NoDate, domain |-> "gym.com"]

AthleteRow(id, first, last, email, trainerId) ==
    [id |-> id, firstName |-> first, lastName |-> last, email |-> email,
     trainerId |-> trainerId]

Null == "<null>"

SessionRow(id, trainerId, athleteId, at, duration, recurring, pattern, parentId) ==
    [id |-> id, trainerId |-> trainerId, athleteId |-> athleteId,
     scheduledAt |-> at, duration |-> duration, isRecurring |-> recurring,
     recurrencePattern |-> pattern, parentSessionId |-> parentId,
     completed |-> FALSE, cancelled |-> FALSE]

\* Athlete_email_key
AthleteCreateOk(tbl, email) == \A a \in tbl : a.email # email

\* Session_athleteId_fkey, Session_trainerId_fkey, and a valid scheduledAt
SessionCreateOk(tblAthletes, trainerId, athleteId, at) ==
    /\ IsValidDate(at)
    /\ trainerId \in TrainerIds
    /\ \E a \in tblAthletes : a.id = athleteId

SeedAthletes ==
    {AthleteRow("a1", "John", "Smith", StoredEmail("john", "smith"), "t1"),
     AthleteRow("a2", "Ann", "Lee", StoredEmail("ann", "lee"), "t2")}

(***************************************************************************)
(* createRecurringSessions, one step per storage call.                     *)
(***************************************************************************)
ExecResult(success, message, error) ==
    [success |-> success, message |-> message, error |-> error,
     reported |-> 0, sessionId |-> Null, childIds |-> <<>>]

\* An error that leaves the handler: the promise rejects, and there is no
\* result but the error.
Uncaught(message, error) ==
    [success |-> FALSE, message |-> Undefined, error |-> error,
     reported |-> 0, sessionId |-> Null, childIds |-> <<>>, thrown |-> TRUE]

\* catch (error) of a handler: the body of every handler is one try block, so
\* an error thrown in it becomes the handler's failure result.
Caught(message, error) == ExecResult(FALSE, message, error)

\* A falsy string: undefined or ''.
Falsy(str) == str \in {Undefined, ""}

\* The bounds of the recurrence inputs.
MaxSpanDays == 62
StartDoms == {15, 30, 31}

\* The ISO string of a local instant.
IsoOfDay(day, slot) ==
    IsoString(MonthOfDay(day, 0), day - DaysBefore(MonthOfDay(day, 0)), slot)

RecurEndStrings(dom) ==
    {UndefinedDateString} \cup {IsoOfDay(dom + k, sl) : k \in 0..MaxSpanDays, sl \in 0..LastSlot}

RecurSessionData ==
    UNION {
        {[t |-> "session", athleteId |-> "a1", athleteName |-> <<"John", "Smith">>,
          isNewAthlete |-> FALSE, scheduledAt |-> IsoString(0, dom, 1),
          duration |-> DefaultDuration, recurrencePattern |-> p,
          recurrenceEndDate |-> e] :
            p \in RecurrencePatterns, e \in RecurEndStrings(dom)} :
        dom \in StartDoms}
    \cup {[t |-> "session", athleteId |-> aid, athleteName |-> <<"Ann", "Lee">>,
           isNewAthlete |-> new, scheduledAt |-> at,
           duration |-> DefaultDuration, recurrencePattern |-> "WEEKLY",
           recurrenceEndDate |-> e] :
            aid \in {Undefined, "", "a9"}, new \in BOOLEAN,
            at \in {IsoString(0, 15, 1), GarbageString},
            e \in {IsoString(0, 29, 1), GarbageString}}

InitRecur ==
    /\ ParseIdle
    /\ athletes = SeedAthletes
    /\ sessions = {}
    /\ nextId = 0
    /\ now = [day |-> 15, slot |-> 1]
    /\ users = {}
    /\ trainers = {}
    /\ checkIns = {}
    /\ RecurIdle
    /\ CallsIdle

\* createRecurringSessions(sessionData, trainerId) is called.
RecurCall ==
    /\ recur.pc = "idle"
    /\ \E sd \in RecurSessionData, tid \in {"t1"} :
        recur' = [pc |-> "athlete", sessionData |-> sd, trainerId |-> tid,
                  athleteId |-> sd.athleteId, parentId |-> Null,
                  currentDate |-> NoDate, endDate |-> NoDate,
                  children |-> <<>>, result |-> ExecResult(FALSE, "", Undefined)]
    /\ UNCHANGED <<parseVars, dbVars, callVars>>

\* Lines 110-135: the new athlete is created first; without an athlete id the
\* handler returns.
RecurResolveAthlete ==
    /\ recur.pc = "athlete"
    /\ LET sd == recur.sessionData
           first == FirstNameOf(sd.athleteName)
           last == LastNameOf(sd.athleteName)
           email == PlaceholderEmail(first, last, now)
           id == NewId("a", nextId + 1)
       IN  IF sd.isNewAthlete /\ Falsy(recur.athleteId)
           THEN IF AthleteCreateOk(athletes, email)
                THEN /\ athletes' = athletes \cup
                            {AthleteRow(id, first, last, email, recur.trainerId)}
                     /\ nextId' = nextId + 1
                     /\ recur' = [recur EXCEPT !.pc = "parent", !.athleteId = id]
                ELSE /\ recur' = [recur EXCEPT !.pc = "done",
                            !.result = Caught(
                                "Failed to create recurring sessions", "P2002")]
                     /\ UNCHANGED <<athletes, nextId>>
           ELSE /\ UNCHANGED <<athletes, nextId>>
                /\ IF Falsy(recur.athleteId)
                   THEN recur' = [recur EXCEPT !.pc = "done",
                            !.result = ExecResult(FALSE,
                                "Could not identify or create athlete",
                                "Missing athlete ID")]
                   ELSE recur' = [recur EXCEPT !.pc = "parent"]
    /\ UNCHANGED <<parseVars, sessions, now, otherTables, callVars>>

\* Lines 137-165 and 194-198: the parent session, the end date, and the first
\* advance of the start date.
RecurCreateParent ==
    /\ recur.pc = "parent"
    /\ LET sd == recur.sessionData
           at == NewDate(sd.scheduledAt)
           hasEnd == sd.recurrenceEndDate # UndefinedDateString
           endDate == IF hasEnd THEN NewDate(sd.recurrenceEndDate)
                      ELSE DefaultEndDate(now)
           id == NewId("s", nextId + 1)
       IN  IF /\ SessionCreateOk(athletes, recur.trainerId, recur.athleteId, at)
              /\ (hasEnd => IsValidDate(endDate))
           THEN /\ sessions' = sessions \cup
                        {SessionRow(id, recur.trainerId, recur.athleteId, at,
                                    sd.duration, TRUE, sd.recurrencePattern, Null)}
                /\ nextId' = nextId + 1
                /\ recur' = [recur EXCEPT !.pc = "loop", !.parentId = id,
                                !.endDate = endDate,
                                !.currentDate = advanceDate(at, sd.recurrencePattern)]
           ELSE /\ recur' = [recur EXCEPT !.pc = "done",
                        !.result = Caught(
                            "Failed to create recurring sessions", "storage error")]
                /\ UNCHANGED <<sessions, nextId>>
    /\ UNCHANGED <<parseVars, athletes, now, otherTables, callVars>>

\* The loop test of generateRecurringSessions
LoopContinues(currentDate, endDate) == DateLe(currentDate, endDate)

\* Lines 200-214: one turn of the loop creates one child and advances the date.
RecurCreateChild ==
    /\ recur.pc = "loop"
    /\ LoopContinues(recur.currentDate, recur.endDate)
    /\ LET sd == recur.sessionData
           id == NewId("s", nextId + 1)
       IN  /\ sessions' = sessions \cup
                {SessionRow(id, recur.trainerId, recur.athleteId, recur.currentDate,
                            sd.duration, TRUE, sd.recurrencePattern, recur.parentId)}
           /\ nextId' = nextId + 1
           /\ recur' = [recur EXCEPT
                    !.children = Append(@, id),
                    !.currentDate = advanceDate(@, sd.recurrencePattern)]
    /\ UNCHANGED <<parseVars, athletes, now, otherTables, callVars>>

\* Lines 167-174: the loop has ended; the result counts the children and the parent.
RecurReturn ==
    /\ recur.pc = "loop"
    /\ ~LoopContinues(recur.currentDate, recur.endDate)
    /\ recur' = [recur EXCEPT !.pc = "done",
            !.result = [success |-> TRUE, message |-> "Created recurring sessions",
                        error |-> Undefined, reported |-> Len(recur.children) + 1,
                        sessionId |-> recur.parentId, childIds |-> recur.children]]
    /\ UNCHANGED <<parseVars, dbVars, callVars>>

NextRecur ==
    \/ RecurCall
    \/ RecurResolveAthlete
    \/ RecurCreateParent
    \/ RecurCreateChild
    \/ RecurReturn

SpecRecur == InitRecur /\ [][NextRecur]_vars

(***************************************************************************)
(* C3.  For every pattern, start time and end date, createRecurringSessions*)
(* creates one parent and exactly as many children as there are advances   *)
(* of the start time by the pattern's step (1, 7, 14 days, one calendar    *)
(* month) that fall after the start and at or before the end date; the     *)
(* reported count is children + 1.  A calendar month is read either way:   *)
(* the k-th advance keeps the day of the month and stops at the month's    *)
(* last day, or runs over into the next month.                             *)
(***************************************************************************)
Min(a, b) == IF a <= b THEN a ELSE b

\* The start advanced k times by the pattern's step: k days, weeks, fortnights,
\* or k calendar months (the same day of the month, or the month's last day).
KthAdvance(start, pattern, k) ==
    CASE pattern = "DAILY" -> [start EXCEPT !.day = start.day + k]
      [] pattern = "WEEKLY" -> [start EXCEPT !.day = start.day + 7 * k]
      [] pattern = "BIWEEKLY" -> [start EXCEPT !.day = start.day + 14 * k]
      [] pattern = "MONTHLY" ->
            LET mo == MonthOfDay(start.day, 0) + k
                dom == start.day - DaysBefore(MonthOfDay(start.day, 0))
            IN  [start EXCEPT !.day = DaysBefore(mo) + Min(dom, DaysInMonth(mo))]

\* The start advanced by k months in one step, as new Date(y, m + k, d) counts
\* it: a day past the end of the month runs over into the next month.
KthMonthOverflow(start, k) ==
    LET mo == MonthOfDay(start.day, 0) + k
        dom == start.day - DaysBefore(MonthOfDay(start.day, 0))
    IN  [start EXCEPT !.day = DaysBefore(mo) + dom]

\* No more advances than this can fall within the longest span of the inputs.
MostAdvances(pattern) ==
    IF pattern = "MONTHLY" THEN (MaxSpanDays + HorizonDays) \div 28 + 1
    ELSE MaxSpanDays + HorizonDays + 1

AdvancesWithin(start, end, pattern) ==
    Cardinality({k \in 1..MostAdvances(pattern) :
        /\ TimeValue(KthAdvance(start, pattern, k)) > TimeValue(start)
        /\ TimeValue(KthAdvance(start, pattern, k)) <= TimeValue(end)})

MonthOverflowsWithin(start, end) ==
    Cardinality({k \in 1..MostAdvances("MONTHLY") :
        /\ TimeValue(KthMonthOverflow(start, k)) > TimeValue(start)
        /\ TimeValue(KthMonthOverflow(start, k)) <= TimeValue(end)})

\* The counts the claim allows: the clamped calendar months, or for MONTHLY
\* the overflowing ones.
AllowedChildCounts(start, end, pattern) ==
    {AdvancesWithin(start, end, pattern)}
    \cup (IF pattern = "MONTHLY" THEN {MonthOverflowsWithin(start, end)} ELSE {})

RecurChildren == {x \in sessions : x.parentSessionId = recur.parentId}

C3_ChildCount ==
    (recur.pc = "done" /\ recur.result.success) =>
        LET sd == recur.sessionData
        IN  /\ Cardinality({x \in sessions : x.id = recur.parentId}) = 1
            /\ Cardinality(RecurChildren) \in
                    AllowedChildCounts(NewDate(sd.scheduledAt), recur.endDate,
                                       sd.recurrencePattern)
            /\ recur.result.reported = Cardinality(RecurChildren) + 1

\* The same count for the day-step patterns alone.
C3_DayStepCount ==
    (recur.pc = "done" /\ recur.result.success
        /\ recur.sessionData.recurrencePattern # "MONTHLY") =>
        LET sd == recur.sessionData
        IN  /\ Cardinality(RecurChildren) =
                    AdvancesWithin(NewDate(sd.scheduledAt), recur.endDate,
                                   sd.recurrencePattern)
            /\ recur.result.reported = Cardinality(RecurChildren) + 1

(***************************************************************************)
(* executeAction and its handlers (lib/parsing/actions).  A handler is a   *)
(* function from the call and the tables to its possible outcomes: the     *)
(* result it returns and the tables it leaves.  findFirst has no order, so *)
(* a handler that uses it has one outcome per row it may find.             *)
(***************************************************************************)
Outcome(result, ath, ses, n) ==
    [result |-> result, athletes |-> ath, sessions |-> ses, nextId |-> n]

\* An email given by the caller.
GivenEmail(str) == [first |-> str, last |-> "", stamp |-> NoDate, domain |-> "given"]

SessionResult(message, id) ==
    [success |-> TRUE, message |-> message, error |-> Undefined,
     reported |-> 0, sessionId |-> id, childIds |-> <<>>]

createSession(sessionData, trainerId, ath, ses, n, clock) ==
    IF sessionData.t = "undefined"
    THEN {Outcome(Caught( "Failed to create session", "TypeError"), ath, ses, n)}
    ELSE
    LET wantsNew == sessionData.isNewAthlete /\ Falsy(sessionData.athleteId)
        first == FirstNameOf(sessionData.athleteName)
        last == LastNameOf(sessionData.athleteName)
        email == PlaceholderEmail(first, last, clock)
        created == wantsNew /\ AthleteCreateOk(ath, email)
        newAthlete == NewId("a", n + 1)
        ath1 == IF created
                THEN ath \cup {AthleteRow(newAthlete, first, last, email, trainerId)}
                ELSE ath
        n1 == IF created THEN n + 1 ELSE n
        athleteId == IF created THEN newAthlete ELSE sessionData.athleteId
        at == NewDate(sessionData.scheduledAt)
        id == NewId("s", n1 + 1)
    IN  IF wantsNew /\ ~created
        THEN {Outcome(Caught( "Failed to create session", "P2002"), ath, ses, n)}
        ELSE IF Falsy(athleteId)
        THEN {Outcome(ExecResult(FALSE, "Could not identify or create athlete",
                                 "Missing athlete ID"), ath1, ses, n1)}
        ELSE IF SessionCreateOk(ath1, trainerId, athleteId, at)
        THEN {Outcome(SessionResult("Session scheduled for " \o Join(sessionData.athleteName), id),
                      ath1,
                      ses \cup {SessionRow(id, trainerId, athleteId, at,
                                           sessionData.duration, FALSE, Null, Null)},
                      n1 + 1)}
        ELSE {Outcome(Caught( "Failed to create session", "storage error"),
                      ath1, ses, n1)}

\* `contains` of the store (SQLite LIKE): the needle occurs in the text, letter
\* case apart.  The names of the model and the names they occur in.
Contains(text, needle) ==
    \/ Lower(needle) = ""
    \/ Lower(needle) = Lower(text)
    \/ <<Lower(needle), Lower(text)>> \in {<<"ann", "joann">>, <<"jo", "john">>, <<"jo", "joann">>}

\* setHours(0, 0, 0, 0) and setHours(23, 59, 59, 999)
StartOfDay(d) == [d EXCEPT !.slot = 0]
EndOfDay(d) == [d EXCEPT !.slot = LastSlot]

\* A filter that names every session, whatever its trainer.
CancelWhereAnyTrainer(sessionData, trainerId, ath, x) ==
    /\ \E a \in ath :
        /\ a.id = x.athleteId
        /\ IF ~Falsy(sessionData.athleteId)
           THEN a.id = sessionData.athleteId
           ELSE Contains(a.firstName, FirstNameOf(sessionData.athleteName))
    /\ TimeValue(x.scheduledAt) >= TimeValue(StartOfDay(NewDate(sessionData.scheduledAt)))
    /\ TimeValue(x.scheduledAt) < TimeValue(EndOfDay(NewDate(sessionData.scheduledAt)))
    /\ x.cancelled = FALSE

\* The where clause of cancelSession's findFirst, for a session x.
CancelWhere(sessionData, trainerId, ath, x) ==
    /\ x.trainerId = trainerId
    /\ \E a \in ath :
        /\ a.id = x.athleteId
        /\ IF ~Falsy(sessionData.athleteId)
           THEN a.id = sessionData.athleteId
           ELSE Contains(a.firstName, FirstNameOf(sessionData.athleteName))
    /\ TimeValue(x.scheduledAt) >= TimeValue(StartOfDay(NewDate(sessionData.scheduledAt)))
    /\ TimeValue(x.scheduledAt) < TimeValue(EndOfDay(NewDate(sessionData.scheduledAt)))
    /\ x.cancelled = FALSE

cancelSession(sessionData, trainerId, ath, ses, n) ==
    IF sessionData.t = "undefined"
    THEN {Outcome(Caught( "Failed to cancel session", "TypeError"), ath, ses, n)}
    ELSE IF ~IsValidDate(NewDate(sessionData.scheduledAt))
    THEN {Outcome(Caught( "Failed to cancel session", "Invalid Date"), ath, ses, n)}
    ELSE
    LET found == {x \in ses : CancelWhere(sessionData, trainerId, ath, x)}
    IN  IF found = {}
        THEN {Outcome(ExecResult(FALSE, "Could not find a matching session to cancel",
                                 "Session not found"), ath, ses, n)}
        ELSE {Outcome(SessionResult("Session cancelled for " \o Join(sessionData.athleteName),
                                    x.id),
                      ath,
                      (ses \ {x}) \cup {[x EXCEPT !.cancelled = TRUE]},
                      n) : x \in found}

createAthlete(athleteData, trainerId, ath, ses, n, clock) ==
    LET email == IF Falsy(athleteData.email)
                 THEN PlaceholderEmail(athleteData.firstName, athleteData.lastName, clock)
                 ELSE GivenEmail(athleteData.email)
        id == NewId("a", n + 1)
    IN  IF AthleteCreateOk(ath, email) /\ trainerId \in TrainerIds
        THEN {Outcome([success |-> TRUE,
                       message |-> "Created new athlete: " \o athleteData.firstName
                                        \o " " \o athleteData.lastName,
                       error |-> Undefined, reported |-> 0, sessionId |-> Null,
                       childIds |-> <<>>],
                      ath \cup {AthleteRow(id, athleteData.firstName, athleteData.lastName,
                                           email, trainerId)},
                      ses, n + 1)}
        ELSE {Outcome(Caught( "Failed to create athlete", "storage error"),
                      ath, ses, n)}

\* The fixed message alone, whatever the clarification.
UnsupportedResultFixed(parseResult) ==
    ExecResult(FALSE, "Unknown action", "Action not supported")

\* parseResult.clarificationNeeded || 'Unknown action'
UnsupportedResult(parseResult) ==
    ExecResult(FALSE,
               IF Falsy(parseResult.clarificationNeeded) THEN "Unknown action"
               ELSE parseResult.clarificationNeeded,
               "Action not supported")

\* executeAction, for every action but CREATE_RECURRING_SESSION with a session
\* descriptor, whose handler runs step by step.
executeAction(parseResult, trainerId, ath, ses, n, clock) ==
    LET data == parseResult.data
    IN  CASE parseResult.action = "CREATE_SESSION" ->
                createSession(data.session, trainerId, ath, ses, n, clock)
          [] parseResult.action = "CREATE_RECURRING_SESSION" ->
                {Outcome(Caught( "Failed to create recurring sessions",
                                    "TypeError"), ath, ses, n)}
          [] parseResult.action = "CANCEL_SESSION" ->
                cancelSession(data.session, trainerId, ath, ses, n)
          [] parseResult.action = "CREATE_ATHLETE" ->
                IF data.athlete.t = "undefined"
                THEN {Outcome(ExecResult(FALSE, "No athlete data provided",
                                         "Missing athlete data"), ath, ses, n)}
                ELSE createAthlete(data.athlete, trainerId, ath, ses, n, clock)
          [] OTHER -> {Outcome(UnsupportedResult(parseResult), ath, ses, n)}

(***************************************************************************)
(* The trainer pipeline: POST /api/parse with execute = true hands the     *)
(* parse result and the acting trainer to executeAction.                   *)
(***************************************************************************)
MaxCalls == 2

SessionDesc(aid, name, new, at, pattern, end) ==
    [t |-> "session", athleteId |-> aid, athleteName |-> name, isNewAthlete |-> new,
     scheduledAt |-> at, duration |-> DefaultDuration, recurrencePattern |-> pattern,
     recurrenceEndDate |-> end]

AthleteDesc(first, last, email) ==
    [t |-> "athlete", firstName |-> first, lastName |-> last, email |-> email]

\* The session descriptors of the calls: an athlete of the trainer, a new
\* athlete, a first name only, part of a first name, another trainer's
\* athlete, another day, a string that is no date.
TrainerSessions ==
    {SessionDesc("a1", <<"John", "Smith">>, FALSE, IsoString(0, 16, 1), Undefined,
                 UndefinedDateString),
     SessionDesc(Undefined, <<"Ann", "Lee">>, TRUE, IsoString(0, 16, 1), Undefined,
                 UndefinedDateString),
     SessionDesc(Undefined, <<"John">>, FALSE, IsoString(0, 16, 0), Undefined,
                 UndefinedDateString),
     SessionDesc("", <<"Jo">>, FALSE, IsoString(0, 16, 1), Undefined,
                 UndefinedDateString),
     SessionDesc("a2", <<"Ann", "Lee">>, FALSE, IsoString(0, 16, 1), Undefined,
                 UndefinedDateString),
     SessionDesc("a1", <<"John", "Smith">>, FALSE, IsoString(0, 17, 1), Undefined,
                 UndefinedDateString),
     SessionDesc("a1", <<"John", "Smith">>, FALSE, GarbageString, Undefined,
                 UndefinedDateString)}

\* The session descriptors of the recurring calls; each carries a pattern.
TrainerRecurringSessions ==
    {SessionDesc("a1", <<"John", "Smith">>, FALSE, IsoString(0, 15, 1), "WEEKLY",
                 IsoString(0, 29, 1)),
     SessionDesc(Undefined, <<"Ann", "Lee">>, TRUE, IsoString(0, 16, 1), "BIWEEKLY",
                 IsoString(0, 30, 1)),
     SessionDesc("a9", <<"John", "Smith">>, FALSE, IsoString(0, 15, 1), "DAILY",
                 IsoString(0, 16, 1))}

TrainerAthletes ==
    {AthleteDesc("Ann", "Lee", Undefined),
     AthleteDesc("Ann", "Lee", "ann@x.com"),
     AthleteDesc("Ann", "Lee", "")}

Clarifications == {Undefined, "", "Which John do you mean?"}

\* Without the empty string, which only the fallback branch tells apart.
SetClarifications == {Undefined, "Which John do you mean?"}

ParseResultOf(action, session, athlete, clarification) ==
    [action |-> action, confidence |-> 9,
     data |-> [session |-> session, athlete |-> athlete],
     clarificationNeeded |-> clarification,
     humanReadableSummary |-> "Schedule John Smith"]

\* The parse results handed to executeAction: every action, with and without
\* the descriptor its handler reads, with and without a clarification.
TrainerParseResults ==
    {ParseResultOf(a, s, NoValue, q) :
        a \in {"CREATE_SESSION", "CANCEL_SESSION"},
        s \in TrainerSessions \cup {NoValue}, q \in SetClarifications}
    \cup {ParseResultOf("CREATE_RECURRING_SESSION", s, NoValue, q) :
            s \in TrainerRecurringSessions \cup {NoValue}, q \in SetClarifications}
    \cup {ParseResultOf("CREATE_ATHLETE", NoValue, a, q) :
            a \in TrainerAthletes \cup {NoValue}, q \in SetClarifications}
    \cup {ParseResultOf(a, s, NoValue, q) :
            a \in {"UNKNOWN", "QUERY", "UPDATE_SESSION"},
            s \in {NoValue, SessionDesc("a1", <<"John", "Smith">>, FALSE,
                                        IsoString(0, 16, 1), Undefined,
                                        UndefinedDateString)},
            q \in Clarifications}

CancelledRow(row) == [row EXCEPT !.cancelled = TRUE]

TrainerSeedAthletes ==
    SeedAthletes \cup {AthleteRow("a3", "Joann", "Lee", StoredEmail("joann", "lee"), "t2")}

TrainerSeedSessions ==
    {SessionRow("sA", "t1", "a1", [day |-> 16, slot |-> 1], 60, FALSE, Null, Null),
     SessionRow("sB", "t2", "a2", [day |-> 16, slot |-> 1], 60, FALSE, Null, Null),
     SessionRow("sC", "t2", "a3", [day |-> 16, slot |-> 0], 60, FALSE, Null, Null),
     CancelledRow(SessionRow("sD", "t1", "a1", [day |-> 17, slot |-> 1], 60, FALSE,
                             Null, Null))}

InitTrainer ==
    /\ ParseIdle
    /\ athletes = TrainerSeedAthletes
    /\ sessions = TrainerSeedSessions
    /\ nextId = 0
    /\ now = [day |-> 15, slot |-> LastSlot - 1]
    /\ users = {}
    /\ trainers = {}
    /\ checkIns = {}
    /\ RecurIdle
    /\ CallsIdle

Snapshot == [athletes |-> athletes, sessions |-> sessions]

\* The route calls executeAction; every handler but the recurring one runs to
\* its result.
ExecCall ==
    /\ exec.pc \in {"idle", "done"}
    /\ exec.calls < MaxCalls
    /\ \E pr \in TrainerParseResults, tid \in TrainerIds :
        /\ ~(pr.action = "CREATE_RECURRING_SESSION" /\ pr.data.session.t # "undefined")
        /\ \E o \in executeAction(pr, tid, athletes, sessions, nextId, now) :
            /\ athletes' = o.athletes
            /\ sessions' = o.sessions
            /\ nextId' = o.nextId
            /\ exec' = [pc |-> "done", calls |-> exec.calls + 1, parseResult |-> pr,
                        trainerId |-> tid, before |-> Snapshot, result |-> o.result]
    /\ UNCHANGED <<parseVars, now, otherTables, recurVars, reqs, admin>>

\* case 'CREATE_RECURRING_SESSION': createRecurringSessions(data.session!, trainerId)
ExecCallRecurring ==
    /\ exec.pc \in {"idle", "done"}
    /\ exec.calls < MaxCalls
    /\ \E pr \in TrainerParseResults, tid \in TrainerIds :
        /\ pr.action = "CREATE_RECURRING_SESSION"
        /\ pr.data.session.t # "undefined"
        /\ exec' = [pc |-> "recurring", calls |-> exec.calls + 1, parseResult |-> pr,
                    trainerId |-> tid, before |-> Snapshot,
                    result |-> ExecResult(FALSE, "", Undefined)]
        /\ recur' = [pc |-> "athlete", sessionData |-> pr.data.session,
                     trainerId |-> tid, athleteId |-> pr.data.session.athleteId,
                     parentId |-> Null, currentDate |-> NoDate, endDate |-> NoDate,
                     children |-> <<>>, result |-> ExecResult(FALSE, "", Undefined)]
    /\ UNCHANGED <<parseVars, dbVars, reqs, admin>>

\* createRecurringSessions has returned to executeAction.
ExecRecurringReturn ==
    /\ exec.pc = "recurring"
    /\ recur.pc = "done"
    /\ exec' = [exec EXCEPT !.pc = "done", !.result = recur.result]
    /\ recur' = RecurIdleState
    /\ UNCHANGED <<parseVars, dbVars, reqs, admin>>

\* Time passes between two readings of the clock.
ClockTick ==
    /\ now.slot < LastSlot
    /\ now' = [now EXCEPT !.slot = now.slot + 1]
    /\ UNCHANGED <<parseVars, athletes, sessions, nextId, otherTables, recurVars, callVars>>

NextTrainer ==
    \/ ExecCall
    \/ ExecCallRecurring
    \/ RecurResolveAthlete
    \/ RecurCreateParent
    \/ RecurCreateChild
    \/ RecurReturn
    \/ ExecRecurringReturn
    \/ ClockTick

SpecTrainer == InitTrainer /\ [][NextTrainer]_vars

(***************************************************************************)
(* C2.  Whenever the parse result carries a non-empty clarificationNeeded, *)
(* executeAction, for every action, writes nothing to the store and        *)
(* returns a failure whose message is exactly that clarification string.   *)
(***************************************************************************)
C2_ClarificationBlocks ==
    (exec.pc = "done" /\ ~Falsy(exec.parseResult.clarificationNeeded)) =>
        /\ exec.result.success = FALSE
        /\ exec.result.message = exec.parseResult.clarificationNeeded
        /\ athletes = exec.before.athletes
        /\ sessions = exec.before.sessions

(***************************************************************************)
(* C10.  A CANCEL_SESSION for which no session of the acting trainer       *)
(* matches the athlete (by id, else by first-name containment) on the      *)
(* target day with cancelled = false returns success = false with the      *)
(* not-found message and leaves every stored row unchanged.                *)
(***************************************************************************)
AthleteNamed(sessionData, a) ==
    IF ~Falsy(sessionData.athleteId) THEN a.id = sessionData.athleteId
    ELSE Contains(a.firstName, FirstNameOf(sessionData.athleteName))

\* The sessions that a trainer's cancel request names, in the tables given.
NamedSessions(sessionData, trainerId, tables) ==
    {x \in tables.sessions :
        /\ x.trainerId = trainerId
        /\ \E a \in tables.athletes : a.id = x.athleteId /\ AthleteNamed(sessionData, a)
        /\ x.scheduledAt.day = NewDate(sessionData.scheduledAt).day
        /\ ~x.cancelled}

IsCancelCall ==
    /\ exec.pc = "done"
    /\ exec.parseResult.action = "CANCEL_SESSION"
    /\ exec.parseResult.data.session.t = "session"
    /\ IsValidDate(NewDate(exec.parseResult.data.session.scheduledAt))

C10_CancelNotFound ==
    (/\ IsCancelCall
     /\ NamedSessions(exec.parseResult.data.session, exec.trainerId, exec.before) = {}) =>
        /\ exec.result.success = FALSE
        /\ exec.result.message = "Could not find a matching session to cancel"
        /\ athletes = exec.before.athletes
        /\ sessions = exec.before.sessions

\* Trainer t1 asked to cancel the session of an athlete of trainer t2 on a day
\* that athlete has a session: nothing of t1 matches, and nothing changed.
C10_Witness ==
    /\ IsCancelCall
    /\ exec.trainerId = "t1"
    /\ exec.parseResult.data.session.athleteId = "a2"
    /\ NamedSessions(exec.parseResult.data.session, "t1", exec.before) = {}
    /\ NamedSessions(exec.parseResult.data.session, "t2", exec.before) # {}
    /\ exec.result.error = "Session not found"
    /\ sessions = exec.before.sessions

(***************************************************************************)
(* The session routes: POST /api/sessions/[id]/complete, PATCH and DELETE  *)
(* /api/sessions/[id], POST /api/checkin, and the trainer pipeline's       *)
(* cancelSession.  Two requests may be in flight at once; a request takes  *)
(* one step per storage call that another request can observe (a read      *)
(* with the checks that follow it, then each write).  The body of a PATCH  *)
(* is modelled by its cancelled key: scheduledAt, duration and notes do    *)
(* not touch the flags.                                                    *)
(***************************************************************************)
MaxRequests == 3

NoPrincipal == [role |-> "none", trainerId |-> Null]

Principals ==
    {NoPrincipal,
     [role |-> "ADMIN", trainerId |-> Null],
     [role |-> "TRAINER", trainerId |-> "t1"],
     [role |-> "TRAINER", trainerId |-> "t2"]}

RouteSessionIds == {"sA", "s9"}

PatchBodies ==
    {[hasCancelled |-> FALSE, cancelled |-> FALSE],
     [hasCancelled |-> TRUE, cancelled |-> TRUE],
     [hasCancelled |-> TRUE, cancelled |-> FALSE]}

NoBody == [hasCancelled |-> FALSE, cancelled |-> FALSE]

\* The body of a check-in: an email, a name, or neither.
CheckInBodies ==
    {[by |-> "email", email |-> StoredEmail("john", "smith"), name |-> <<>>],
     [by |-> "email", email |-> StoredEmail("no", "body"), name |-> <<>>],
     [by |-> "name", email |-> StoredEmail("", ""), name |-> <<"john", "Smith">>],
     [by |-> "name", email |-> StoredEmail("", ""), name |-> <<"Ann">>],
     [by |-> "none", email |-> StoredEmail("", ""), name |-> <<>>]}

RouteCancelData ==
    {SessionDesc("a1", <<"John", "Smith">>, FALSE, IsoString(0, 15, 1), Undefined,
                 UndefinedDateString),
     SessionDesc(Undefined, <<"Ann">>, FALSE, IsoString(0, 15, 1), Undefined,
                 UndefinedDateString)}

Request(kind, principal, sid, body, pc) ==
    [pc |-> pc, kind |-> kind, principal |-> principal, sid |-> sid, body |-> body,
     athleteId |-> Null, found |-> Null, status |-> 0, success |-> FALSE]

Respond(r, status, success) ==
    [r EXCEPT !.pc = "done", !.status = status, !.success = success]

CanStart ==
    /\ reqs.started < MaxRequests
    /\ \E i \in ReqSlots : reqs.slot[i].pc \in {"free", "done"}

\* The slot a new request takes.
StartSlot == IF reqs.slot["r1"].pc \in {"free", "done"} THEN "r1" ELSE "r2"

Started(r) ==
    [started |-> reqs.started + 1, slot |-> [reqs.slot EXCEPT ![StartSlot] = r]]

Stepped(i, r) == [reqs EXCEPT !.slot[i] = r]

RowsById(tbl, id) == {x \in tbl : x.id = id}

\* db.session.update({ where: { id }, data }) on a row that exists
UpdateById(tbl, id, field, value) ==
    {IF x.id = id THEN [x EXCEPT ![field] = value] ELSE x : x \in tbl}

\* The routes without the ownership check: any signed-in principal goes on.
RouteGateAnyTrainer(principal, sid, ses) ==
    IF principal.role = "none" THEN 401
    ELSE IF RowsById(ses, sid) = {} THEN 404
    ELSE 0

\* getSession, findUnique and the ownership check shared by the three routes:
\* the status of the early return, or 0 when the handler goes on.
RouteGate(principal, sid, ses) ==
    IF principal.role = "none" THEN 401
    ELSE IF RowsById(ses, sid) = {} THEN 404
    ELSE IF /\ principal.role = "TRAINER"
            /\ \E x \in RowsById(ses, sid) : x.trainerId # principal.trainerId
         THEN 403
         ELSE 0

\* The complete route also refuses a cancelled and a completed session.
CompleteGate(principal, sid, ses) ==
    IF RouteGate(principal, sid, ses) # 0 THEN RouteGate(principal, sid, ses)
    ELSE IF \E x \in RowsById(ses, sid) : x.cancelled THEN 400
    ELSE IF \E x \in RowsById(ses, sid) : x.completed THEN 400
    ELSE 0

RouteFrame == UNCHANGED <<parseVars, recurVars, exec, admin, users, trainers, athletes, now>>

\* A request's read step: the early return, or on to the write.
ReadStep(kind, principal, sid, body, gate) ==
    /\ CanStart
    /\ reqs' = Started(IF gate = 0
                       THEN Request(kind, principal, sid, body, "write")
                       ELSE Respond(Request(kind, principal, sid, body, "read"),
                                    gate, FALSE))
    /\ UNCHANGED <<sessions, checkIns, nextId>>
    /\ RouteFrame

\* A request's update of the session it read; the update throws when the row
\* is gone.
WriteStep(i, field, value) ==
    LET r == reqs.slot[i]
    IN  /\ IF RowsById(sessions, r.sid) # {}
           THEN /\ sessions' = UpdateById(sessions, r.sid, field, value)
                /\ reqs' = Stepped(i, Respond(r, 200, TRUE))
           ELSE /\ UNCHANGED sessions
                /\ reqs' = Stepped(i, Respond(r, 500, FALSE))
        /\ UNCHANGED <<checkIns, nextId>>
        /\ RouteFrame

CompleteRead ==
    \E p \in Principals, sid \in RouteSessionIds :
        ReadStep("complete", p, sid, NoBody, CompleteGate(p, sid, sessions))

CompleteWrite ==
    \E i \in ReqSlots :
        /\ reqs.slot[i].pc = "write"
        /\ reqs.slot[i].kind = "complete"
        /\ WriteStep(i, "completed", TRUE)

DeleteRead ==
    \E p \in Principals, sid \in RouteSessionIds :
        ReadStep("delete", p, sid, NoBody, RouteGate(p, sid, sessions))

DeleteWrite ==
    \E i \in ReqSlots :
        /\ reqs.slot[i].pc = "write"
        /\ reqs.slot[i].kind = "delete"
        /\ WriteStep(i, "cancelled", TRUE)

PatchRead ==
    \E p \in Principals, sid \in RouteSessionIds, body \in PatchBodies :
        ReadStep("patch", p, sid, body, RouteGate(p, sid, sessions))

\* updateData holds cancelled only when the body has the key.
PatchWrite ==
    \E i \in ReqSlots :
        /\ reqs.slot[i].pc = "write"
        /\ reqs.slot[i].kind = "patch"
        /\ IF reqs.slot[i].body.hasCancelled
           THEN WriteStep(i, "cancelled", reqs.slot[i].body.cancelled)
           ELSE WriteStep(i, "id", reqs.slot[i].sid)

\* The athlete of a check-in: by email, else by name (the exact match, else
\* the partial match, else the first name alone); `find` takes the first of
\* the rows in the store's order, so any of the matching rows.
CheckInLastName(name) == IF Len(name) > 1 THEN Join(Tail(name)) ELSE ""

CheckInAthletes(body, ath) ==
    LET first == FirstNameOf(body.name)
        last == CheckInLastName(body.name)
        exact == {a \in ath : Lower(a.firstName) = Lower(first)
                              /\ Lower(a.lastName) = Lower(last)}
        partial == {a \in ath : Contains(a.firstName, first)
                                /\ (last = "" \/ Contains(a.lastName, last))}
        firstOnly == {a \in ath : Lower(a.firstName) = Lower(first)}
    IN  IF body.by = "email" THEN {a \in ath : a.email = body.email}
        ELSE IF exact # {} THEN exact
        ELSE IF partial # {} THEN partial
        ELSE firstOnly

\* The earliest session of the athlete today, whatever its state.
TodaySessionsAnyState(athleteId, ses, clock) ==
    LET today == {x \in ses :
                    /\ x.athleteId = athleteId
                    /\ TimeValue(x.scheduledAt) >= TimeValue(StartOfDay(clock))
                    /\ TimeValue(x.scheduledAt) <= TimeValue(EndOfDay(clock))}
    IN  {x \in today : \A y \in today : TimeValue(x.scheduledAt) <= TimeValue(y.scheduledAt)}

\* Today's session of the athlete: not cancelled, not completed, the earliest.
TodaySessions(athleteId, ses, clock) ==
    LET today == {x \in ses :
                    /\ x.athleteId = athleteId
                    /\ TimeValue(x.scheduledAt) >= TimeValue(StartOfDay(clock))
                    /\ TimeValue(x.scheduledAt) <= TimeValue(EndOfDay(clock))
                    /\ x.cancelled = FALSE
                    /\ x.completed = FALSE}
    IN  {x \in today : \A y \in today : TimeValue(x.scheduledAt) <= TimeValue(y.scheduledAt)}

CheckInRow(id, athleteId, sessionId) ==
    [id |-> id, athleteId |-> athleteId, sessionId |-> sessionId,
     matched |-> sessionId # Null]

\* Lines 104-210: the athlete and today's session are looked up.
CheckInFind ==
    /\ CanStart
    /\ \E body \in CheckInBodies :
        LET r == Request("checkin", NoPrincipal, Null, body, "read")
        IN  IF body.by = "none" THEN reqs' = Started(Respond(r, 400, FALSE))
            ELSE IF CheckInAthletes(body, athletes) = {}
            THEN reqs' = Started(Respond(r, 404, FALSE))
            ELSE \E a \in CheckInAthletes(body, athletes) :
                    \/ /\ TodaySessions(a.id, sessions, now) = {}
                       /\ reqs' = Started([r EXCEPT !.pc = "create", !.athleteId = a.id])
                    \/ \E x \in TodaySessions(a.id, sessions, now) :
                        reqs' = Started([r EXCEPT !.pc = "create", !.athleteId = a.id,
                                                  !.found = x.id])
    /\ UNCHANGED <<sessions, checkIns, nextId>>
    /\ RouteFrame

\* Lines 212-219: the CheckIn row; CheckIn_sessionId_key allows one row per
\* session.
CheckInCreate ==
    \E i \in ReqSlots :
        LET r == reqs.slot[i]
        IN  /\ r.pc = "create"
            /\ IF r.found # Null /\ \E c \in checkIns : c.sessionId = r.found
               THEN /\ reqs' = Stepped(i, Respond(r, 500, FALSE))
                    /\ UNCHANGED <<checkIns, nextId>>
               ELSE /\ checkIns' = checkIns \cup
                            {CheckInRow(NewId("c", nextId + 1), r.athleteId, r.found)}
                    /\ nextId' = nextId + 1
                    /\ reqs' = Stepped(i, IF r.found = Null THEN Respond(r, 200, TRUE)
                                          ELSE [r EXCEPT !.pc = "complete"])
            /\ UNCHANGED sessions
            /\ RouteFrame

\* Lines 221-230: the session found is marked completed.
CheckInComplete ==
    \E i \in ReqSlots :
        LET r == reqs.slot[i]
        IN  /\ r.pc = "complete"
            /\ IF RowsById(sessions, r.found) # {}
               THEN /\ sessions' = UpdateById(sessions, r.found, "completed", TRUE)
                    /\ reqs' = Stepped(i, Respond(r, 200, TRUE))
               ELSE /\ UNCHANGED sessions
                    /\ reqs' = Stepped(i, Respond(r, 500, FALSE))
            /\ UNCHANGED <<checkIns, nextId>>
            /\ RouteFrame

\* cancelSession's findFirst (actions.ts lines 242-266).
CancelFind ==
    /\ CanStart
    /\ \E tid \in TrainerIds, sd \in RouteCancelData :
        LET r == [Request("cancel", [role |-> "TRAINER", trainerId |-> tid], Null,
                          NoBody, "read") EXCEPT !.athleteId = sd.athleteId]
            found == {x \in sessions : CancelWhere(sd, tid, athletes, x)}
        IN  \/ /\ found = {}
               /\ reqs' = Started(Respond(r, 200, FALSE))
            \/ \E x \in found :
                reqs' = Started([r EXCEPT !.pc = "write", !.sid = x.id, !.found = x.id])
    /\ UNCHANGED <<sessions, checkIns, nextId>>
    /\ RouteFrame

\* cancelSession's update (actions.ts lines 268-277).
CancelWrite ==
    \E i \in ReqSlots :
        /\ reqs.slot[i].pc = "write"
        /\ reqs.slot[i].kind = "cancel"
        /\ WriteStep(i, "cancelled", TRUE)

RouteSeedSessions ==
    {SessionRow("sA", "t1", "a1", [day |-> 15, slot |-> 1], 60, FALSE, Null, Null),
     SessionRow("sB", "t2", "a2", [day |-> 15, slot |-> 0], 60, FALSE, Null, Null),
     SessionRow("sC", "t1", "a1", [day |-> 15, slot |-> LastSlot], 60, FALSE, Null, Null)}

InitSessions ==
    /\ ParseIdle
    /\ athletes = TrainerSeedAthletes
    /\ sessions = RouteSeedSessions
    /\ nextId = 0
    /\ now = [day |-> 15, slot |-> 1]
    /\ users = {}
    /\ trainers = {}
    /\ checkIns = {}
    /\ RecurIdle
    /\ exec = ExecIdleState
    /\ reqs = ReqsIdleState
    /\ admin = AdminIdleState

NextSessions ==
    \/ CompleteRead
    \/ CompleteWrite
    \/ DeleteRead
    \/ DeleteWrite
    \/ PatchRead
    \/ PatchWrite
    \/ CheckInFind
    \/ CheckInCreate
    \/ CheckInComplete
    \/ CancelFind
    \/ CancelWrite

SpecSessions == InitSessions /\ [][NextSessions]_vars

(***************************************************************************)
(* C4.  In every reachable state, after any sequence and any interleaving  *)
(* of the complete route, the DELETE soft-cancel, a PATCH with cancelled,  *)
(* a check-in and the trainer pipeline's CANCEL_SESSION, no Session has    *)
(* both completed = true and cancelled = true.                             *)
(***************************************************************************)
C4_NeverCompletedAndCancelled ==
    \A x \in sessions : ~(x.completed /\ x.cancelled)

(***************************************************************************)
(* The admin executor (lib/admin-actions) and the store it drives.  The    *)
(* store is the record of the client's delegates; an operation names a     *)
(* model, a method and its args, a record with an optional where and an    *)
(* optional data, each a record of column values.                          *)
(***************************************************************************)
EntityNames == {"User", "Trainer", "Athlete", "Session"}

AllowedVerbs ==
    {"create", "update", "updateMany", "delete", "deleteMany", "findMany", "findFirst"}

\* model.toLowerCase()
ModelToLowerCase(model) ==
    CASE model = "User" -> "user"
      [] model = "Trainer" -> "trainer"
      [] model = "Athlete" -> "athlete"
      [] model = "Session" -> "session"
      [] model = "CheckIn" -> "checkin"
      [] model = "Payment" -> "payment"
      [] OTHER -> model

\* The delegates of the client (db.user, db.trainer, db.athlete, db.session,
\* db.checkIn) and the functions a delegate has; the source calls findUnique
\* and count besides the seven verbs of PrismaOperation.
Delegates == {"user", "trainer", "athlete", "session", "checkIn"}

DelegateMethods == AllowedVerbs \cup {"findUnique", "count"}

\* prismaModel && typeof prismaModel[method] === 'function'
AccessorExists(model, method) ==
    ModelToLowerCase(model) \in Delegates /\ method \in DelegateMethods

Db ==
    [user |-> users, trainer |-> trainers, athlete |-> athletes,
     session |-> sessions, checkIn |-> checkIns]

UserRow(id, email, passwordHash, name, role) ==
    [id |-> id, email |-> email, passwordHash |-> passwordHash, name |-> name,
     role |-> role]

TrainerRow(id, userId) == [id |-> id, userId |-> userId]

Columns(delegate) ==
    CASE delegate = "user" -> {"id", "email", "passwordHash", "name", "role"}
      [] delegate = "trainer" -> {"id", "userId"}
      [] delegate = "athlete" -> {"id", "firstName", "lastName", "email", "trainerId"}
      [] delegate = "session" ->
            {"id", "trainerId", "athleteId", "scheduledAt", "duration", "isRecurring",
             "recurrencePattern", "parentSessionId", "completed", "cancelled"}
      [] OTHER -> {"id", "athleteId", "sessionId", "matched"}

\* The columns a create must give: NOT NULL without a default.
Required(delegate) ==
    CASE delegate = "user" -> {"email", "passwordHash", "name"}
      [] delegate = "trainer" -> {"userId"}
      [] delegate = "athlete" -> {"firstName", "lastName", "email"}
      [] delegate = "session" -> {"trainerId", "athleteId", "scheduledAt"}
      [] OTHER -> {"athleteId"}

\* The relations a create may write through.
RelationKeys(delegate) ==
    CASE delegate = "user" -> {"trainer"}
      [] delegate = "trainer" -> {"user"}
      [] OTHER -> {}

\* The columns that hold a DateTime.
DateKeys == {"scheduledAt"}

\* The row a create starts from: the column defaults.
DefaultRow(delegate) ==
    CASE delegate = "user" -> UserRow(Null, StoredEmail("", ""), "", "", "TRAINER")
      [] delegate = "trainer" -> TrainerRow(Null, Null)
      [] delegate = "athlete" -> AthleteRow(Null, "", "", StoredEmail("", ""), Null)
      [] delegate = "session" ->
            SessionRow(Null, Null, Null, NoDate, DefaultDuration, FALSE, Null, Null)
      [] OTHER -> CheckInRow(Null, Null, Null)

IdPrefix(delegate) ==
    CASE delegate = "user" -> "u"
      [] delegate = "trainer" -> "t"
      [] delegate = "athlete" -> "a"
      [] delegate = "session" -> "s"
      [] OTHER -> "c"

Ids(tbl) == {x.id : x \in tbl}

UniqueBy(tbl, key) == \A x \in tbl, y \in tbl : x.id # y.id => x[key] # y[key]

\* The constraints of the schema: the unique indexes, the foreign keys, and
\* a DateTime in every DateTime column.
Consistent(db) ==
    /\ UniqueBy(db.user, "email")
    /\ UniqueBy(db.trainer, "userId")
    /\ UniqueBy(db.athlete, "email")
    /\ \A t \in db.trainer : t.userId \in Ids(db.user)
    /\ \A a \in db.athlete : a.trainerId \in Ids(db.trainer) \cup {Null}
    /\ \A x \in db.session :
        /\ x.trainerId \in Ids(db.trainer)
        /\ x.athleteId \in Ids(db.athlete)
        /\ x.parentSessionId \in Ids(db.session) \cup {Null}
        /\ "day" \in DOMAIN x.scheduledAt
        /\ IsValidDate(x.scheduledAt)
    /\ \A c \in db.checkIn, d \in db.checkIn :
        (c.id # d.id /\ c.sessionId # Null) => c.sessionId # d.sessionId

\* A DateTime value given as an ISO string is read as the date it names.
NormDates(rec) ==
    [k \in DOMAIN rec |->
        IF k \in DateKeys /\ "iso" \in DOMAIN rec[k] /\ rec[k].iso
        THEN NewDate(rec[k]) ELSE rec[k]]

WhereOf(args) == IF "where" \in DOMAIN args THEN NormDates(args.where) ELSE <<>>

\* An equality filter: every key of the filter is a column with that value.
Matches(row, where) == \A k \in DOMAIN where : row[k] = where[k]

Selected(db, delegate, where) == {x \in db[delegate] : Matches(x, where)}

ApplyData(row, data) ==
    [k \in DOMAIN row |-> IF k \in DOMAIN data THEN data[k] ELSE row[k]]

\* What a storage call gives back: a row, null, an array, a count object or
\* a number.
OpResult(t, id, count, ids) == [t |-> t, id |-> id, count |-> count, ids |-> ids]

NoResult == OpResult("none", Null, 0, {})

\* The call threw: the store is as it was (each storage call is atomic).
Threw(db, n, message) ==
    [threw |-> TRUE, invoked |-> TRUE, db |-> db, nextId |-> n, result |-> NoResult,
     message |-> message]

Returned(db, n, result) ==
    [threw |-> FALSE, invoked |-> TRUE, db |-> db, nextId |-> n, result |-> result,
     message |-> ""]

Plain(delegate, data) ==
    [k \in DOMAIN data \ RelationKeys(delegate) |-> data[k]]

MakeRow(delegate, id, plain) ==
    [k \in Columns(delegate) |->
        IF k = "id" THEN id
        ELSE IF k \in DOMAIN plain THEN plain[k] ELSE DefaultRow(delegate)[k]]

\* delegate.create({ data }), with the nested create of the other side of the
\* User-Trainer relation.
Create(db, n, delegate, data) ==
    LET nestedUser == delegate = "trainer" /\ "user" \in DOMAIN data
        nestedTrainer == delegate = "user" /\ "trainer" \in DOMAIN data
        userId == NewId("u", n + 1)
        n1 == IF nestedUser THEN n + 1 ELSE n
        id == IF "id" \in DOMAIN data THEN data.id
              ELSE NewId(IdPrefix(delegate), n1 + 1)
        trainerId == IF /\ nestedTrainer
                        /\ "create" \in DOMAIN data.trainer
                        /\ "id" \in DOMAIN data.trainer.create
                     THEN data.trainer.create.id
                     ELSE NewId("t", n1 + 2)
        plain == IF nestedUser
                 THEN [k \in (DOMAIN Plain(delegate, data)) \cup {"userId"} |->
                        IF k = "userId" THEN userId ELSE data[k]]
                 ELSE NormDates(Plain(delegate, data))
        db1 == IF nestedUser
               THEN [db EXCEPT !.user = @ \cup {MakeRow("user", userId, data.user.create)}]
               ELSE db
        db2 == [db1 EXCEPT ![delegate] = @ \cup {MakeRow(delegate, id, plain)}]
        db3 == IF nestedTrainer
               THEN [db2 EXCEPT !.trainer = @ \cup {TrainerRow(trainerId, id)}]
               ELSE db2
        n3 == IF nestedTrainer THEN n1 + 2 ELSE n1 + 1
        valid == /\ DOMAIN plain \subseteq Columns(delegate)
                 /\ id \notin Ids(db1[delegate])
                 /\ nestedTrainer => trainerId \notin Ids(db.trainer)
                 /\ Required(delegate) \subseteq DOMAIN plain
                 /\ nestedUser =>
                        /\ "userId" \notin DOMAIN data
                        /\ "create" \in DOMAIN data.user
                        /\ Required("user") \subseteq DOMAIN data.user.create
                        /\ DOMAIN data.user.create \subseteq Columns("user") \ {"id"}
                 /\ nestedTrainer => "create" \in DOMAIN data.trainer
    IN  IF valid /\ Consistent(db3)
        THEN Returned(db3, n3, OpResult("row", id, 1, {id}))
        ELSE Threw(db, n, "storage error")

\* The rows that go with the rows deleted: ON DELETE CASCADE from User to
\* Trainer and from Trainer to Athlete; ON DELETE RESTRICT from Trainer and
\* Athlete to Session and from Athlete to CheckIn makes the delete throw; ON
\* DELETE SET NULL on Session.parentSessionId and CheckIn.sessionId.
DeleteRows(db, n, delegate, ids) ==
    LET delU == IF delegate = "user" THEN ids ELSE {}
        delT == (IF delegate = "trainer" THEN ids ELSE {})
                    \cup {t.id : t \in {t \in db.trainer : t.userId \in delU}}
        delA == (IF delegate = "athlete" THEN ids ELSE {})
                    \cup {a.id : a \in {a \in db.athlete : a.trainerId \in delT}}
        delS == IF delegate = "session" THEN ids ELSE {}
        restricted ==
            \/ \E x \in db.session : x.trainerId \in delT \/ x.athleteId \in delA
            \/ \E c \in db.checkIn : c.athleteId \in delA
        after ==
            [user |-> {u \in db.user : u.id \notin delU},
             trainer |-> {t \in db.trainer : t.id \notin delT},
             athlete |-> {a \in db.athlete : a.id \notin delA},
             session |-> {IF x.parentSessionId \in delS
                          THEN [x EXCEPT !.parentSessionId = Null] ELSE x :
                            x \in {y \in db.session : y.id \notin delS}},
             checkIn |-> {IF c.sessionId \in delS
                          THEN [c EXCEPT !.sessionId = Null]
                          ELSE c : c \in db.checkIn}]
    IN  IF restricted THEN Threw(db, n, "storage error")
        ELSE Returned(after, n, OpResult("count", Null, Cardinality(ids), ids))

\* delegate.update / updateMany: the rows named get the data.
UpdateRows(db, n, delegate, ids, data, result) ==
    LET after == [db EXCEPT ![delegate] =
                    {IF x.id \in ids THEN ApplyData(x, NormDates(data)) ELSE x : x \in @}]
    IN  IF DOMAIN data \subseteq Columns(delegate) \ {"id"} /\ Consistent(after)
        THEN Returned(after, n, result)
        ELSE Threw(db, n, "storage error")

\* prismaModel[method](args), for a delegate and a method that exist.
Invoke(db, n, delegate, method, args) ==
    LET where == WhereOf(args)
        hasData == "data" \in DOMAIN args
        rows == Selected(db, delegate, where)
        ids == Ids(rows)
        byId == "id" \in DOMAIN where
    IN  IF ~(DOMAIN where \subseteq Columns(delegate))
        THEN Threw(db, n, "storage error")
        ELSE CASE method = "findMany" ->
                    Returned(db, n, OpResult("array", Null, Cardinality(ids), ids))
               [] method = "findFirst" ->
                    Returned(db, n, IF ids = {} THEN OpResult("null", Null, 0, {})
                                    ELSE OpResult("row", Null, 1, ids))
               [] method = "findUnique" ->
                    IF ~byId THEN Threw(db, n, "storage error")
                    ELSE Returned(db, n, IF ids = {} THEN OpResult("null", Null, 0, {})
                                         ELSE OpResult("row", where.id, 1, ids))
               [] method = "count" ->
                    Returned(db, n, OpResult("number", Null, Cardinality(ids), {}))
               [] method = "create" ->
                    IF hasData THEN Create(db, n, delegate, args.data)
                    ELSE Threw(db, n, "storage error")
               [] method = "update" ->
                    IF hasData /\ byId /\ ids # {}
                    THEN UpdateRows(db, n, delegate, ids, args.data,
                                    OpResult("row", where.id, 1, ids))
                    ELSE Threw(db, n, "storage error")
               [] method = "updateMany" ->
                    IF hasData
                    THEN UpdateRows(db, n, delegate, ids, args.data,
                                    OpResult("count", Null, Cardinality(ids), ids))
                    ELSE Threw(db, n, "storage error")
               [] method = "delete" ->
                    IF byId /\ ids # {}
                    THEN LET r == DeleteRows(db, n, delegate, ids)
                         IN  IF r.threw THEN r
                             ELSE [r EXCEPT !.result = OpResult("row", where.id, 1, ids)]
                    ELSE Threw(db, n, "storage error")
               [] method = "deleteMany" -> DeleteRows(db, n, delegate, ids)
               [] OTHER -> Threw(db, n, "storage error")

HashPlaceholder == "$HASH_PLACEHOLDER$"

CustomPasswordToken == "$PASSWORD:secret$"

\* hashPassword
HashPassword(password) == "hash(" \o password \o ")"

\* processArgs: the placeholder password of data becomes a hash, a custom
\* password token the hash of the password it carries, and the ISO date
\* strings become dates.
processArgs(args) ==
    LET hashed(data) ==
            IF "passwordHash" \in DOMAIN data
            THEN [data EXCEPT !.passwordHash =
                    IF @ = HashPlaceholder THEN HashPassword("trainer123")
                    ELSE IF @ = CustomPasswordToken THEN HashPassword("secret")
                    ELSE @]
            ELSE data
    IN  [k \in DOMAIN args |->
            IF k = "data" THEN NormDates(hashed(args.data)) ELSE NormDates(args[k])]

UndoOp(model, method, args) == [model |-> model, method |-> method, args |-> args]

\* A create whose undo is dropped.
UndoOfCreateDropped(op, result) == <<>>

\* case 'create': a delete by the id of the row created
UndoOfCreate(op, result) ==
    IF result.id # Null
    THEN <<UndoOp(op.model, "delete", [where |-> [id |-> result.id]])>>
    ELSE <<>>

\* An update whose descriptor is pushed: the values read after the update.
UndoOfUpdatePushed(op) == <<UndoOp(op.model, "update", op.args)>>

\* case 'update': the row is read after the update; nothing is pushed.
UndoOfUpdate(op) == <<>>

\* { ...where, cancelled: flag }
SpreadCancelled(where, flag) ==
    [k \in DOMAIN where \cup {"cancelled"} |->
        IF k = "cancelled" THEN flag ELSE where[k]]

\* case 'updateMany': on Session, a data that sets cancelled is reversed.
UndoOfUpdateMany(op) ==
    IF /\ "where" \in DOMAIN op.args
       /\ "data" \in DOMAIN op.args
       /\ op.model = "Session"
       /\ "cancelled" \in DOMAIN op.args.data
    THEN <<UndoOp("Session", "updateMany",
                  [where |-> SpreadCancelled(op.args.where, op.args.data.cancelled),
                   data |-> [cancelled |-> ~op.args.data.cancelled]])>>
    ELSE <<>>

generateUndoOperations(op, result) ==
    CASE op.method = "create" -> UndoOfCreate(op, result)
      [] op.method = "update" -> UndoOfUpdate(op)
      [] op.method = "updateMany" -> UndoOfUpdateMany(op)
      [] OTHER -> <<>>

\* One turn of the loop: processArgs, the accessor check, the storage call.
RunOp(db, n, op) ==
    IF AccessorExists(op.model, op.method)
    THEN Invoke(db, n, ModelToLowerCase(op.model), op.method, processArgs(op.args))
    ELSE [Threw(db, n, "Invalid operation: " \o op.model \o "." \o op.method)
            EXCEPT !.invoked = FALSE]

\* The store a batch leaves when an operation throws: what the operations
\* before it wrote, or the store from before the batch.
StoreRolledBack(before, atThrow) == before

StoreAfterThrow(before, atThrow) == atThrow

\* The loop of executeAdminAction from operation i on.  The log lists the
\* storage accessors invoked.  Each awaited value is taken from a one-element
\* set, so that it is computed once.
RECURSIVE RunBatch(_, _, _, _)
RunBatch(ops, i, st, before) ==
    IF i > Len(ops) THEN st
    ELSE LET logged(r) ==
                IF r.invoked
                THEN Append(st.log, [model |-> ops[i].model, method |-> ops[i].method])
                ELSE st.log
             Rest(next) == RunBatch(ops, i + 1, next, before)
             Turn(r) ==
                IF r.threw
                THEN [st EXCEPT !.threw = TRUE, !.failedAt = i, !.log = logged(r),
                                !.message = r.message,
                                !.db = StoreAfterThrow(before, st.db)]
                ELSE CHOOSE end \in
                        {Rest(next) : next \in
                            {[st EXCEPT !.db = r.db, !.nextId = r.nextId,
                                        !.log = logged(r),
                                        !.results = Append(@, r.result),
                                        !.undo = @ \o generateUndoOperations(ops[i],
                                                                             r.result)]}} :
                        TRUE
         IN  CHOOSE end \in {Turn(r) : r \in {RunOp(st.db, st.nextId, ops[i])}} : TRUE

BatchStart(db, n) ==
    [db |-> db, nextId |-> n, log |-> <<>>, results |-> <<>>, undo |-> <<>>,
     threw |-> FALSE, failedAt |-> 0, message |-> ""]

\* A truthy string: not undefined, not null, not ''.
Truthy(str) == str \notin {Undefined, Null, ""}

\* data: { result: queryResult }, whatever the result is.
QueryDataAsValue(queryResult) == [t |-> "value", result |-> queryResult]

\* data: { count, items } for an array, { result } for any other value.
QueryData(queryResult) ==
    IF queryResult.t = "array"
    THEN [t |-> "list", count |-> Cardinality(queryResult.ids), items |-> queryResult]
    ELSE [t |-> "value", result |-> queryResult]

AdminResult(success, message, st, hasData, undoOperations) ==
    [success |-> success, message |-> message, db |-> st.db, nextId |-> st.nextId,
     log |-> st.log, results |-> st.results, hasData |-> hasData,
     data |-> IF hasData THEN QueryData(st.results[1]) ELSE NoValue,
     undoOperations |-> undoOperations, failedAt |-> st.failedAt]

\* executeAdminAction.  undoOperations is <<>> where the result has none.
executeAdminAction(parseResult, db, n) ==
    IF Truthy(parseResult.clarificationNeeded)
    THEN AdminResult(FALSE, parseResult.clarificationNeeded, BatchStart(db, n), FALSE, <<>>)
    ELSE IF Len(parseResult.operations) = 0
    THEN AdminResult(FALSE, "No operations to execute", BatchStart(db, n), FALSE, <<>>)
    ELSE LET Format(st) ==
                IF st.threw
                THEN AdminResult(FALSE, "Failed to execute: " \o st.message, st, FALSE, <<>>)
                ELSE IF parseResult.isQuery /\ Len(st.results) > 0
                THEN AdminResult(TRUE,
                                 IF st.results[1].t = "array"
                                 THEN parseResult.humanReadableSummary \o "\n\nFound "
                                        \o ToString(st.results[1].count) \o " result(s)."
                                 ELSE parseResult.humanReadableSummary,
                                 st, TRUE, <<>>)
                ELSE AdminResult(TRUE, parseResult.humanReadableSummary, st, FALSE, st.undo)
         IN  CHOOSE res \in
                {Format(st) : st \in
                    {RunBatch(parseResult.operations, 1, BatchStart(db, n), db)}} : TRUE

\* The loop of POST /api/admin/undo: the descriptors are replayed as given.
RECURSIVE ReplayUndo(_, _, _, _)
ReplayUndo(undoOps, i, db, n) ==
    IF i > Len(undoOps) THEN [status |-> 200, success |-> TRUE, db |-> db, nextId |-> n]
    ELSE LET op == undoOps[i]
             Turn(r) ==
                IF r.threw
                THEN [status |-> 500, success |-> FALSE, db |-> db, nextId |-> n]
                ELSE ReplayUndo(undoOps, i + 1, r.db, r.nextId)
         IN  CHOOSE end \in
                {Turn(r) : r \in
                    {IF AccessorExists(op.model, op.method)
                     THEN Invoke(db, n, ModelToLowerCase(op.model), op.method, op.args)
                     ELSE Threw(db, n, "Invalid undo operation")}} : TRUE

\* POST /api/admin/undo
AdminUndoRoute(principal, undoOps, db, n) ==
    IF principal.role = "none"
    THEN [status |-> 401, success |-> FALSE, db |-> db, nextId |-> n]
    ELSE IF principal.role # "ADMIN"
    THEN [status |-> 403, success |-> FALSE, db |-> db, nextId |-> n]
    ELSE IF Len(undoOps) = 0
    THEN [status |-> 200, success |-> FALSE, db |-> db, nextId |-> n]
    ELSE ReplayUndo(undoOps, 1, db, n)

(***************************************************************************)
(* The admin pipeline: POST /api/admin/parse with execute = true hands the *)
(* parsed batch to executeAdminAction; the client may then post the undo   *)
(* list it got back to POST /api/admin/undo.                               *)
(***************************************************************************)
MaxOps == 2

Op(model, method, args) ==
    [model |-> model, method |-> method, args |-> args, description |-> ""]

NoArgs == <<>>

\* The operations of the batches: every verb, on rows that exist and rows
\* that do not, with and without a constraint in the way; and operations
\* outside the entities and verbs of PrismaOperation.
CreateOps ==
    {Op("User", "create",
        [data |-> [email |-> StoredEmail("nina", "ray"), passwordHash |-> HashPlaceholder,
                   name |-> "Nina Ray", role |-> "TRAINER",
                   trainer |-> [create |-> NoArgs]]]),
     Op("User", "create",
        [data |-> [email |-> StoredEmail("mike", "jones"),
                   passwordHash |-> CustomPasswordToken, name |-> "Mike Jones"]]),
     Op("Trainer", "create",
        [data |-> [user |-> [create |-> [email |-> StoredEmail("omar", "diaz"),
                                         passwordHash |-> HashPlaceholder,
                                         name |-> "Omar Diaz"]]]]),
     Op("Trainer", "create", [data |-> [userId |-> "u4"]]),
     Op("Athlete", "create",
        [data |-> [firstName |-> "Zoe", lastName |-> "Park",
                   email |-> StoredEmail("zoe", "park"), trainerId |-> "t1"]]),
     Op("Session", "create",
        [data |-> [trainerId |-> "t1", athleteId |-> "a1",
                   scheduledAt |-> IsoString(0, 18, 1)]]),
     Op("Session", "create",
        [data |-> [trainerId |-> "t1", athleteId |-> "a9",
                   scheduledAt |-> IsoString(0, 18, 1)]])}

UpdateOps ==
    {Op("Session", "update", [where |-> [id |-> "s1"], data |-> [cancelled |-> TRUE]]),
     Op("Session", "update", [where |-> [id |-> "s9"], data |-> [cancelled |-> TRUE]]),
     Op("Athlete", "update", [where |-> [id |-> "a1"], data |-> [firstName |-> "Johnny"]])}

UpdateManyOps ==
    {Op("Session", "updateMany",
        [where |-> [trainerId |-> "t1"], data |-> [cancelled |-> TRUE]]),
     Op("Session", "updateMany",
        [where |-> [athleteId |-> "a1", cancelled |-> FALSE], data |-> [cancelled |-> TRUE]]),
     Op("Session", "updateMany",
        [where |-> [athleteId |-> "a1"], data |-> [cancelled |-> FALSE]]),
     Op("Session", "updateMany",
        [where |-> [athleteId |-> "a1"], data |-> [trainerId |-> "t2"]])}

DeleteOps ==
    {Op("Session", "delete", [where |-> [id |-> "s3"]]),
     Op("Athlete", "delete", [where |-> [id |-> "a1"]]),
     Op("User", "delete", [where |-> [id |-> "u3"]]),
     Op("Session", "deleteMany", [where |-> [athleteId |-> "a1"]])}

ReadOps ==
    {Op("Session", "findMany", [where |-> [trainerId |-> "t1"]]),
     Op("Athlete", "findFirst", [where |-> [firstName |-> "John"]])}

OtherOps ==
    {Op("Session", "count", NoArgs),
     Op("Session", "findUnique", [where |-> [id |-> "s1"]]),
     Op("CheckIn", "findMany", NoArgs),
     Op("Payment", "create", NoArgs),
     Op("Session", "drop", NoArgs)}

AdminOps == CreateOps \cup UpdateOps \cup UpdateManyOps \cup DeleteOps \cup ReadOps \cup OtherOps

Batches == UNION {[1..k -> AdminOps] : k \in 1..MaxOps}

AdminParseResultOf(operations, clarification, isQuery) ==
    [operations |-> operations, humanReadableSummary |-> "Summary",
     clarificationNeeded |-> clarification, isQuery |-> isQuery]

AdminParseResults ==
    {AdminParseResultOf(b, Null, q) : b \in Batches, q \in BOOLEAN}
    \cup {AdminParseResultOf(<<>>, Null, FALSE),
          AdminParseResultOf(<<>>, "Which trainer do you mean?", FALSE),
          AdminParseResultOf(<<Op("Session", "delete", [where |-> [id |-> "s3"]])>>,
                             "Which trainer do you mean?", FALSE),
          AdminParseResultOf(<<Op("Session", "delete", [where |-> [id |-> "s3"]])>>,
                             "", FALSE)}

AdminSeedUsers ==
    {UserRow("u1", StoredEmail("admin", "gym"), HashPassword("admin123"), "Admin", "ADMIN"),
     UserRow("u2", StoredEmail("mike", "jones"), HashPassword("trainer123"), "Mike Jones",
             "TRAINER"),
     UserRow("u3", StoredEmail("sara", "kim"), HashPassword("trainer123"), "Sara Kim",
             "TRAINER"),
     UserRow("u4", StoredEmail("paul", "roe"), HashPassword("trainer123"), "Paul Roe",
             "TRAINER")}

AdminSeedTrainers == {TrainerRow("t1", "u2"), TrainerRow("t2", "u3")}

\* Three sessions; the second may be cancelled already.
AdminSeedSessions(c2) ==
    {SessionRow("s1", "t1", "a1", [day |-> 16, slot |-> 1], 60, FALSE, Null, Null),
     [SessionRow("s2", "t1", "a1", [day |-> 17, slot |-> 1], 60, FALSE, Null, Null)
        EXCEPT !.cancelled = c2],
     SessionRow("s3", "t2", "a2", [day |-> 16, slot |-> 1], 60, FALSE, Null, Null)}

InitAdmin ==
    /\ ParseIdle
    /\ users = AdminSeedUsers
    /\ trainers = AdminSeedTrainers
    /\ athletes = SeedAthletes
    /\ \E c2 \in BOOLEAN : sessions = AdminSeedSessions(c2)
    /\ checkIns = {}
    /\ nextId = 10
    /\ now = [day |-> 15, slot |-> 1]
    /\ RecurIdle
    /\ exec = ExecIdleState
    /\ reqs = ReqsIdleState
    /\ admin = AdminIdleState

NoUndoResponse == [status |-> 0, success |-> FALSE, principal |-> NoPrincipal]

StoreIs(db) ==
    /\ users' = db.user
    /\ trainers' = db.trainer
    /\ athletes' = db.athlete
    /\ sessions' = db.session
    /\ checkIns' = db.checkIn

\* The route calls executeAdminAction with the parsed batch.
AdminExecute ==
    /\ admin.pc = "idle"
    /\ \E pr \in AdminParseResults :
        \E r \in {executeAdminAction(pr, Db, nextId)} :
            /\ StoreIs(r.db)
            /\ nextId' = r.nextId
            /\ admin' = [pc |-> "executed", parseResult |-> pr, before |-> Db,
                         beforeId |-> nextId, afterExec |-> r.db,
                         result |-> [success |-> r.success, message |-> r.message,
                                     log |-> r.log, results |-> r.results,
                                     hasData |-> r.hasData, data |-> r.data,
                                     undoOperations |-> r.undoOperations,
                                     failedAt |-> r.failedAt],
                         undo |-> NoUndoResponse]
    /\ UNCHANGED <<parseVars, now, recurVars, exec, reqs>>

\* The client posts the undo list of the last result to the undo endpoint.
AdminUndo ==
    /\ admin.pc = "executed"
    /\ \E p \in Principals :
        \E r \in {AdminUndoRoute(p, admin.result.undoOperations, Db, nextId)} :
            /\ StoreIs(r.db)
            /\ nextId' = r.nextId
            /\ admin' = [admin EXCEPT !.pc = "undone",
                            !.undo = [status |-> r.status, success |-> r.success,
                                      principal |-> p]]
    /\ UNCHANGED <<parseVars, now, recurVars, exec, reqs>>

NextAdmin ==
    \/ AdminExecute
    \/ AdminUndo

SpecAdmin == InitAdmin /\ [][NextAdmin]_vars

(***************************************************************************)
(* The batch the executor ran, and what it was given.                      *)
(***************************************************************************)
BatchOps == admin.parseResult.operations

\* The call got past the clarification and the empty-batch returns.
BatchRan ==
    /\ admin.pc # "idle"
    /\ ~Truthy(admin.parseResult.clarificationNeeded)
    /\ Len(BatchOps) > 0

UndoneByAdmin == admin.pc = "undone" /\ admin.undo.principal.role = "ADMIN"

OutsideAllowlist(op) == op.model \notin EntityNames \/ op.method \notin AllowedVerbs

\* C5: executeAdminAction never invokes a storage accessor for an operation
\* whose entity is outside {User, Trainer, Athlete, Session} or whose verb is
\* outside {create, update, updateMany, delete, deleteMany, findMany,
\* findFirst}; a batch with such an operation fails before that operation
\* and any later one runs.
C5_AllowlistGate ==
    admin.pc # "idle" =>
        /\ \A i \in 1..Len(admin.result.log) : ~OutsideAllowlist(admin.result.log[i])
        /\ \A k \in 1..Len(BatchOps) :
            OutsideAllowlist(BatchOps[k]) =>
                ~admin.result.success /\ Len(admin.result.log) < k

\* The store after operations 1..j of a batch, each run on what the ones
\* before it left, up to the first that throws.
RECURSIVE AfterPrefix(_, _, _, _)
AfterPrefix(ops, j, db, n) ==
    IF j = 0 THEN Returned(db, n, NoResult)
    ELSE LET Turn(p) == IF p.threw THEN p ELSE RunOp(p.db, p.nextId, ops[j])
         IN  CHOOSE end \in {Turn(p) : p \in {AfterPrefix(ops, j - 1, db, n)}} : TRUE

ThrowsFirstAt(k) ==
    /\ AfterPrefix(BatchOps, k, admin.before, admin.beforeId).threw
    /\ ~AfterPrefix(BatchOps, k - 1, admin.before, admin.beforeId).threw

\* C6: once operation k of a batch throws, no operation after k is executed,
\* the result is success=false, and the store holds what operations 1..k-1
\* wrote.
C6_StopsAtThrowNoRollback ==
    (admin.pc = "executed" /\ BatchRan) =>
        \A k \in 1..Len(BatchOps) :
            ThrowsFirstAt(k) =>
                /\ ~admin.result.success
                /\ Len(admin.result.log) <= k
                /\ \A i \in 1..Len(admin.result.log) :
                    admin.result.log[i] =
                        [model |-> BatchOps[i].model, method |-> BatchOps[i].method]
                /\ Db = AfterPrefix(BatchOps, k - 1, admin.before, admin.beforeId).db
                /\ nextId = AfterPrefix(BatchOps, k - 1, admin.before, admin.beforeId).nextId

\* The second operation threw after the first had written.
C6_Witness ==
    /\ admin.pc = "executed"
    /\ BatchRan
    /\ Len(BatchOps) >= 2
    /\ ThrowsFirstAt(2)
    /\ ~admin.result.success
    /\ Db # admin.before

SingleCreate == BatchRan /\ Len(BatchOps) = 1 /\ BatchOps[1].method = "create"

CreatedId == admin.result.results[1].id

DeleteOfCreated == UndoOp(BatchOps[1].model, "delete", [where |-> [id |-> CreatedId]])

\* The create wrote a row of the parent entity through the relation: a
\* Trainer.create with a nested create of its User.
WroteNestedUser ==
    /\ BatchOps[1].model = "Trainer"
    /\ "data" \in DOMAIN BatchOps[1].args
    /\ "user" \in DOMAIN BatchOps[1].args.data

UpdateOnly == BatchRan /\ \A k \in 1..Len(BatchOps) : BatchOps[k].method = "update"

\* The operations of the batch whose case of generateUndoOperations pushes.
Emitting ==
    {k \in 1..Len(BatchOps) :
        \/ BatchOps[k].method = "create"
        \/ /\ BatchOps[k].method = "updateMany"
           /\ BatchOps[k].model = "Session"
           /\ "where" \in DOMAIN BatchOps[k].args
           /\ "data" \in DOMAIN BatchOps[k].args
           /\ "cancelled" \in DOMAIN BatchOps[k].args.data}

\* An update of the batch changed a column of a row, and the column has its
\* value from before the batch again.
RestoredAfterUpdate(k) ==
    LET op == BatchOps[k]
        delegate == ModelToLowerCase(op.model)
    IN  /\ op.method = "update"
        /\ "where" \in DOMAIN op.args
        /\ "data" \in DOMAIN op.args
        /\ "id" \in DOMAIN op.args.where
        /\ \E old \in admin.before[delegate], mid \in admin.afterExec[delegate],
              cur \in Db[delegate] :
            /\ old.id = op.args.where.id
            /\ mid.id = old.id
            /\ cur.id = old.id
            /\ \E col \in DOMAIN op.args.data :
                mid[col] # old[col] /\ cur[col] = old[col]

SingleCancelMany ==
    /\ BatchRan
    /\ Len(BatchOps) = 1
    /\ BatchOps[1].model = "Session"
    /\ BatchOps[1].method = "updateMany"
    /\ "where" \in DOMAIN BatchOps[1].args
    /\ "data" \in DOMAIN BatchOps[1].args
    /\ DOMAIN BatchOps[1].args.data = {"cancelled"}

\* C9: executing a Session updateMany that sets cancelled under filter W and
\* then replaying its undo descriptor (W with cancelled flipped, value
\* flipped) restores every session's cancelled flag to its value before the
\* operation, also for the sessions that had the target value already.
C9_UndoRestoresCancelled ==
    (UndoneByAdmin /\ SingleCancelMany /\ admin.result.success
        /\ admin.result.undoOperations # <<>> /\ admin.undo.success) =>
        /\ admin.result.undoOperations =
            <<UndoOp("Session", "updateMany",
                     [where |-> SpreadCancelled(BatchOps[1].args.where,
                                                BatchOps[1].args.data.cancelled),
                      data |-> [cancelled |-> ~BatchOps[1].args.data.cancelled]])>>
        /\ \A old \in admin.before.session : \A cur \in sessions :
            cur.id = old.id => cur.cancelled = old.cancelled

(***************************************************************************)
(* createSession, one step per storage call, for calls that overlap: the   *)
(* route awaits each storage call, and another request may run between the *)
(* athlete's create and the session's.                                     *)
(***************************************************************************)
\* The test of the flag alone, whatever the athlete id.
WantsNewAthleteAnyId(sessionData, athleteId) == sessionData.isNewAthlete

\* if (sessionData.isNewAthlete && !athleteId)
WantsNewAthlete(sessionData, athleteId) ==
    sessionData.isNewAthlete /\ Falsy(athleteId)

\* The session descriptors of the overlapping calls: a new athlete, a new
\* athlete on a string that is no date, an athlete of the trainer, an athlete
\* also flagged new, another trainer's athlete, no athlete, a missing athlete.
CreateSessions ==
    {SessionDesc(Undefined, <<"Ann", "Lee">>, TRUE, IsoString(0, 16, 1), Undefined,
                 UndefinedDateString),
     SessionDesc("", <<"Ann", "Lee">>, TRUE, GarbageString, Undefined,
                 UndefinedDateString),
     SessionDesc("a1", <<"John", "Smith">>, FALSE, IsoString(0, 16, 1), Undefined,
                 UndefinedDateString),
     SessionDesc("a1", <<"John", "Smith">>, TRUE, IsoString(0, 16, 1), Undefined,
                 UndefinedDateString),
     SessionDesc("a2", <<"Ann", "Lee">>, FALSE, IsoString(0, 16, 1), Undefined,
                 UndefinedDateString),
     SessionDesc(Undefined, <<"John">>, FALSE, IsoString(0, 16, 1), Undefined,
                 UndefinedDateString),
     SessionDesc("a9", <<"John", "Smith">>, FALSE, IsoString(0, 16, 1), Undefined,
                 UndefinedDateString)}

\* A row written by a call: its table, its id and the athlete it names.
Wrote(table, id, athleteId) == [table |-> table, id |-> id, athleteId |-> athleteId]

CreateRequest(sessionData, trainerId, pc, result) ==
    [pc |-> pc, kind |-> "createSession", trainerId |-> trainerId,
     sessionData |-> sessionData,
     athleteId |-> IF sessionData.t = "undefined" THEN Undefined
                   ELSE sessionData.athleteId,
     stamp |-> NoDate, log |-> <<>>, result |-> result]

CreateFrame == UNCHANGED <<parseVars, recurVars, exec, admin, otherTables, now>>

\* The calls of one behaviour, and whether one more may start.
MaxCreates == 2

CanCreate ==
    /\ reqs.started < MaxCreates
    /\ \E i \in ReqSlots : reqs.slot[i].pc \in {"free", "done"}

\* createSession(data.session!, trainerId) is called; reading a field of a
\* missing descriptor throws into the catch.
CreateCall ==
    /\ CanCreate
    /\ \E sd \in CreateSessions \cup {NoValue}, tid \in TrainerIds :
        reqs' = Started(
            IF sd.t = "undefined"
            THEN CreateRequest(sd, tid, "done",
                    Caught( "Failed to create session", "TypeError"))
            ELSE CreateRequest(sd, tid, "athlete", ExecResult(FALSE, "", Undefined)))
    /\ UNCHANGED <<athletes, sessions, nextId>>
    /\ CreateFrame

\* Lines 82-108: the new athlete is created first, under an address that
\* holds the clock's reading; without an athlete id the handler returns.
CreateAthleteStep(i) ==
    /\ reqs.slot[i].pc = "athlete"
    /\ LET r == reqs.slot[i]
           sd == r.sessionData
           first == FirstNameOf(sd.athleteName)
           last == LastNameOf(sd.athleteName)
           email == PlaceholderEmail(first, last, now)
           id == NewId("a", nextId + 1)
       IN  IF WantsNewAthlete(sd, r.athleteId)
           THEN IF AthleteCreateOk(athletes, email)
                THEN /\ athletes' = athletes \cup
                            {AthleteRow(id, first, last, email, r.trainerId)}
                     /\ nextId' = nextId + 1
                     /\ reqs' = Stepped(i, [r EXCEPT !.pc = "session",
                                    !.athleteId = id, !.stamp = now,
                                    !.log = Append(@, Wrote("Athlete", id, id))])
                ELSE /\ reqs' = Stepped(i, [r EXCEPT !.pc = "done", !.stamp = now,
                            !.result = Caught( "Failed to create session",
                                                  "P2002")])
                     /\ UNCHANGED <<athletes, nextId>>
           ELSE /\ UNCHANGED <<athletes, nextId>>
                /\ IF Falsy(r.athleteId)
                   THEN reqs' = Stepped(i, [r EXCEPT !.pc = "done",
                            !.result = ExecResult(FALSE,
                                "Could not identify or create athlete",
                                "Missing athlete ID")])
                   ELSE reqs' = Stepped(i, [r EXCEPT !.pc = "session"])
    /\ UNCHANGED sessions
    /\ CreateFrame

\* Lines 110-132: the session is created for the athlete id at hand; a create
\* that throws is caught and reported.
CreateSessionStep(i) ==
    /\ reqs.slot[i].pc = "session"
    /\ LET r == reqs.slot[i]
           sd == r.sessionData
           at == NewDate(sd.scheduledAt)
           id == NewId("s", nextId + 1)
       IN  IF SessionCreateOk(athletes, r.trainerId, r.athleteId, at)
           THEN /\ sessions' = sessions \cup
                        {SessionRow(id, r.trainerId, r.athleteId, at, sd.duration,
                                    FALSE, Null, Null)}
                /\ nextId' = nextId + 1
                /\ reqs' = Stepped(i, [r EXCEPT !.pc = "done",
                        !.log = Append(@, Wrote("Session", id, r.athleteId)),
                        !.result = SessionResult(
                            "Session scheduled for " \o Join(sd.athleteName), id)])
           ELSE /\ reqs' = Stepped(i, [r EXCEPT !.pc = "done",
                        !.result = Caught( "Failed to create session",
                                              "storage error")])
                /\ UNCHANGED <<sessions, nextId>>
    /\ UNCHANGED athletes
    /\ CreateFrame

\* createRecurringSessions(data.session!, trainerId) is called beside them.
CreateRecurringCall ==
    /\ recur.pc = "idle"
    /\ reqs.started < MaxCreates
    /\ \E sd \in TrainerRecurringSessions, tid \in TrainerIds :
        recur' = [pc |-> "athlete", sessionData |-> sd, trainerId |-> tid,
                  athleteId |-> sd.athleteId, parentId |-> Null,
                  currentDate |-> NoDate, endDate |-> NoDate,
                  children |-> <<>>, result |-> ExecResult(FALSE, "", Undefined)]
    /\ reqs' = [reqs EXCEPT !.started = @ + 1]
    /\ UNCHANGED <<parseVars, dbVars, exec, admin>>

\* A catch that removed the sessions the call had written.
SessionsRolledBack(ses, call) ==
    {x \in ses : x.id # call.parentId /\ \A k \in 1..Len(call.children) :
                                            x.id # call.children[k]}

\* The catch of createRecurringSessions returns; the sessions stay as they are.
SessionsAfterThrow(ses, call) == ses

\* The create of a child rejects (the store is unreachable, or busy): the
\* error leaves generateRecurringSessions and is caught by its caller.
RecurChildThrows ==
    /\ recur.pc = "loop"
    /\ LoopContinues(recur.currentDate, recur.endDate)
    /\ recur' = [recur EXCEPT !.pc = "done",
            !.result = Caught( "Failed to create recurring sessions",
                                  "storage error")]
    /\ sessions' = SessionsAfterThrow(sessions, recur)
    /\ UNCHANGED <<parseVars, athletes, nextId, now, otherTables, callVars>>

InitCreate ==
    /\ ParseIdle
    /\ athletes = TrainerSeedAthletes
    /\ sessions = {}
    /\ nextId = 0
    /\ now = [day |-> 15, slot |-> LastSlot - 1]
    /\ users = {}
    /\ trainers = {}
    /\ checkIns = {}
    /\ RecurIdle
    /\ CallsIdle

NextCreate ==
    \/ CreateCall
    \/ \E i \in ReqSlots : CreateAthleteStep(i)
    \/ \E i \in ReqSlots : CreateSessionStep(i)
    \/ CreateRecurringCall
    \/ RecurResolveAthlete
    \/ RecurCreateParent
    \/ RecurCreateChild
    \/ RecurChildThrows
    \/ RecurReturn
    \/ ClockTick

SpecCreate == InitCreate /\ [][NextCreate]_vars

\* The rows a call has written to a table, in the order of writing.
LogOf(r, table) == SelectSeq(r.log, LAMBDA w : w.table = table)

CreateSlots == {i \in ReqSlots : reqs.slot[i].pc \in {"athlete", "session", "done"}}

\* What a call has logged is what is stored: the athlete under the acting
\* trainer, the session for the athlete logged with it.
LogStored(r) ==
    \A k \in 1..Len(r.log) :
        IF r.log[k].table = "Athlete"
        THEN \E a \in athletes : a.id = r.log[k].id /\ a.trainerId = r.trainerId
        ELSE \E x \in sessions : x.id = r.log[k].id /\ x.athleteId = r.log[k].athleteId

\* C11: a createSession call for a new athlete without an athlete id that
\* writes a Session has written exactly one Athlete row, before the Session
\* row, and the Session row names that athlete; between the two writes the
\* athlete is stored and the session is not; a call whose descriptor carries
\* an athlete id writes no Athlete row.
C11_AthleteBeforeSession ==
    \A i \in CreateSlots :
        LET r == reqs.slot[i]
            sd == r.sessionData
        IN  /\ LogStored(r)
            /\ (sd.t # "undefined" /\ sd.isNewAthlete /\ Falsy(sd.athleteId)) =>
                /\ r.pc = "session" =>
                    /\ Len(r.log) = 1
                    /\ r.log[1].table = "Athlete"
                    /\ r.athleteId = r.log[1].id
                /\ (r.pc = "done" /\ r.result.success) =>
                    /\ Len(r.log) = 2
                    /\ r.log[1].table = "Athlete"
                    /\ r.log[2].table = "Session"
                    /\ r.log[2].athleteId = r.log[1].id
                    /\ r.result.sessionId = r.log[2].id
            /\ (sd.t # "undefined" /\ ~Falsy(sd.athleteId)) =>
                LogOf(r, "Athlete") = <<>>

\* A call for a new athlete has written both rows while a call that names an
\* athlete, also flagged new, has written its session.
C11_Witness ==
    \E i, j \in CreateSlots :
        /\ reqs.slot[i].pc = "done"
        /\ reqs.slot[i].result.success
        /\ Len(reqs.slot[i].log) = 2
        /\ reqs.slot[j].pc = "done"
        /\ reqs.slot[j].result.success
        /\ reqs.slot[j].sessionData.isNewAthlete
        /\ reqs.slot[j].sessionData.athleteId = "a1"

\* Two calls of createSession with the same descriptor, for a new athlete on
\* a valid date, and the same trainer, both returned.
TwinCalls(i, j) ==
    /\ i # j
    /\ reqs.slot[i].pc = "done"
    /\ reqs.slot[j].pc = "done"
    /\ reqs.slot[i].sessionData = reqs.slot[j].sessionData
    /\ reqs.slot[i].trainerId = reqs.slot[j].trainerId
    /\ reqs.slot[i].sessionData.t # "undefined"
    /\ WantsNewAthlete(reqs.slot[i].sessionData, reqs.slot[i].sessionData.athleteId)
    /\ IsValidDate(NewDate(reqs.slot[i].sessionData.scheduledAt))

\* C12: two identical createSession calls for a new athlete (same name, same
\* trainer, no athlete id) both succeed and leave two distinct Athlete rows,
\* whatever the two readings of the clock, equal readings included.
C12_TwinCallsBothSucceed ==
    \A i, j \in ReqSlots :
        TwinCalls(i, j) =>
            /\ reqs.slot[i].result.success
            /\ reqs.slot[j].result.success
            /\ reqs.slot[i].log[1].id # reqs.slot[j].log[1].id
            /\ \E a, b \in athletes :
                /\ a.id = reqs.slot[i].log[1].id
                /\ b.id = reqs.slot[j].log[1].id
                /\ a.email # b.email

(***************************************************************************)
(* C13.  For the action UNKNOWN and for an action without a handler        *)
(* (UPDATE_SESSION), executeAction leaves the store as it was and returns  *)
(* success = false; the message is the clarification text when the parse   *)
(* result carries one (a non-empty string), and 'Unknown action' otherwise.*)
(***************************************************************************)
Unhandled == {"UNKNOWN", "UPDATE_SESSION"}

C13_UnhandledNoStorage ==
    (exec.pc = "done" /\ exec.parseResult.action \in Unhandled) =>
        /\ Snapshot = exec.before
        /\ ~exec.result.success
        /\ exec.result.sessionId = Null
        /\ exec.result.message =
            IF exec.parseResult.clarificationNeeded \in {Undefined, ""}
            THEN "Unknown action"
            ELSE exec.parseResult.clarificationNeeded

\* An UPDATE_SESSION with a session descriptor and a clarification has been
\* answered, after an earlier call.
C13_Witness ==
    /\ exec.pc = "done"
    /\ exec.calls = MaxCalls
    /\ exec.parseResult.action = "UPDATE_SESSION"
    /\ exec.parseResult.data.session.t = "session"
    /\ exec.parseResult.clarificationNeeded = "Which John do you mean?"
    /\ exec.result.message = "Which John do you mean?"

(***************************************************************************)
(* executeQuery: the read-only queries of the trainer executor.            *)
(***************************************************************************)
QueryTypes ==
    {"SESSIONS_LIST", "SESSIONS_COUNT", "ATHLETES_LIST", "ATHLETES_COUNT",
     "SCHEDULE_SUMMARY"}

QueryFilters(dateFrom, dateTo, athleteId, status) ==
    [t |-> "filters", dateFrom |-> dateFrom, dateTo |-> dateTo,
     athleteId |-> athleteId, status |-> status]

QueryDesc(queryType, filters, description) ==
    [t |-> "query", queryType |-> queryType, filters |-> filters,
     description |-> description]

\* take: 50
Take == 50

\* filters.dateFrom, filters.dateTo as conditions: null, undefined and '' are falsy.
HasDate(str) == str # UndefinedDateString

\* Reading a field of missing filters throws; so does a where clause that
\* holds an Invalid Date.
WhereThrows(filters) ==
    \/ filters.t = "undefined"
    \/ HasDate(filters.dateFrom) /\ ~IsValidDate(NewDate(filters.dateFrom))
    \/ HasDate(filters.dateTo) /\ ~IsValidDate(NewDate(filters.dateTo))

\* The where clause of SESSIONS_LIST and SESSIONS_COUNT.
SessionWhere(filters, trainerId, x) ==
    /\ x.trainerId = trainerId
    /\ HasDate(filters.dateFrom) => DateLe(NewDate(filters.dateFrom), x.scheduledAt)
    /\ HasDate(filters.dateTo) => DateLe(x.scheduledAt, NewDate(filters.dateTo))
    /\ ~Falsy(filters.athleteId) => x.athleteId = filters.athleteId
    /\ CASE filters.status = "completed" -> x.completed /\ ~x.cancelled
         [] filters.status = "upcoming" -> ~x.completed /\ ~x.cancelled
         [] filters.status = "cancelled" -> x.cancelled
         [] OTHER -> TRUE

\* orderBy scheduledAt asc with take: the first rows in time; rows of one
\* instant come in either order.
TakeFirst(rows, take) ==
    LET sure == {x \in rows :
                    Cardinality({y \in rows \ {x} :
                        TimeValue(y.scheduledAt) <= TimeValue(x.scheduledAt)}) < take}
        maybe == {x \in rows :
                    Cardinality({y \in rows :
                        TimeValue(y.scheduledAt) < TimeValue(x.scheduledAt)}) < take} \ sure
        size == IF Cardinality(rows) <= take THEN Cardinality(rows) ELSE take
    IN  {sure \cup more : more \in {m \in SUBSET maybe : Cardinality(sure \cup m) = size}}

QueryOk(message, queryResult) ==
    [success |-> TRUE, message |-> message, error |-> Undefined,
     queryResult |-> queryResult]

QueryFailed == Caught( "Failed to execute query", "TypeError")

\* sessions.map(...): the listed fields of a row, with its athlete's name.
ListedSession(x, ath) ==
    [id |-> x.id,
     athleteName |-> {<<a.firstName, a.lastName>> : a \in {b \in ath : b.id = x.athleteId}},
     scheduledAt |-> x.scheduledAt, duration |-> x.duration,
     completed |-> x.completed, cancelled |-> x.cancelled]

ListedAthlete(a) ==
    [id |-> a.id, firstName |-> a.firstName, lastName |-> a.lastName, email |-> a.email]

\* executeQuery(query, trainerId): the results it may return.
executeQuery(query, trainerId, ath, ses, clock) ==
    LET filters == query.filters
        matching == {x \in ses : SessionWhere(filters, trainerId, x)}
        own == {a \in ath : a.trainerId = trainerId}
        mine == {x \in ses : x.trainerId = trainerId}
    IN  CASE query.queryType = "SESSIONS_LIST" ->
                IF WhereThrows(filters) THEN {QueryFailed}
                ELSE {QueryOk(query.description,
                              [t |-> "sessions",
                               sessions |-> {ListedSession(x, ath) : x \in page}]) :
                        page \in TakeFirst(matching, Take)}
          [] query.queryType = "SESSIONS_COUNT" ->
                IF WhereThrows(filters) THEN {QueryFailed}
                ELSE {QueryOk(query.description,
                              [t |-> "count", count |-> Cardinality(matching)])}
          [] query.queryType = "ATHLETES_LIST" ->
                {QueryOk(query.description,
                         [t |-> "athletes", athletes |-> {ListedAthlete(a) : a \in own}])}
          [] query.queryType = "ATHLETES_COUNT" ->
                {QueryOk(query.description, [t |-> "count", count |-> Cardinality(own)])}
          [] query.queryType = "SCHEDULE_SUMMARY" ->
                {QueryOk(query.description,
                    [t |-> "summary",
                     totalSessions |-> Cardinality(mine),
                     completedSessions |-> Cardinality({x \in mine : x.completed}),
                     upcomingSessions |-> Cardinality({x \in mine :
                            /\ ~x.completed
                            /\ ~x.cancelled
                            /\ DateLe(clock, x.scheduledAt)}),
                     totalAthletes |-> Cardinality(own)])}
          [] OTHER -> {ExecResult(FALSE, "Unknown query type", "not supported")}

(***************************************************************************)
(* The queries of a trainer against stores of a few rows, of as many rows  *)
(* as a list query takes, and of one row more.                             *)
(***************************************************************************)
StoreSizes == {2, Take, Take + 1}

\* Athletes q1 .. qn of trainer t1, beside those of the other trainer.
QuerySeedAthletes(n) ==
    {AthleteRow(NewId("q", k), "Ann", "Lee", StoredEmail("ann", ToString(k)), "t1") :
        k \in 1..n}
    \cup {AthleteRow("a2", "Ann", "Lee", StoredEmail("ann", "lee"), "t2"),
          AthleteRow("a3", "Joann", "Lee", StoredEmail("joann", "lee"), "t2")}

\* Sessions x1 .. xn of trainer t1, two a day from day 10 on, the last two at
\* one instant, every third completed and every fifth cancelled.
QuerySeedSessions(n) ==
    {[SessionRow(NewId("x", k), "t1", IF k % 2 = 1 THEN "q1" ELSE "q2",
                 [day |-> 10 + (Min(k, Take) \div 2), slot |-> Min(k, Take) % 2],
                 DefaultDuration, FALSE, Null, Null)
        EXCEPT !.completed = (k % 3 = 0), !.cancelled = (k % 5 = 0)] : k \in 1..n}
    \cup {SessionRow("sB", "t2", "a2", [day |-> 16, slot |-> 1], DefaultDuration,
                     FALSE, Null, Null)}

\* The date filters of the queries: none, from a day on, up to a day, between
\* two days, and a string that is no date on either side.
QueryDates ==
    {<<UndefinedDateString, UndefinedDateString>>,
     <<IsoString(0, 15, 0), UndefinedDateString>>,
     <<UndefinedDateString, IsoString(0, 30, 1)>>,
     <<IsoString(0, 15, 0), IsoString(0, 30, 1)>>,
     <<GarbageString, UndefinedDateString>>,
     <<UndefinedDateString, GarbageString>>}

Queries ==
    {QueryDesc(qt, QueryFilters(d[1], d[2], Undefined, st), "Sessions and athletes") :
        qt \in {"SESSIONS_LIST", "SESSIONS_COUNT"},
        d \in QueryDates,
        st \in {"all", "completed", "upcoming", "cancelled"}}
    \cup {QueryDesc(qt, QueryFilters(UndefinedDateString, UndefinedDateString, aid, st),
                     "Sessions and athletes") :
            qt \in {"SESSIONS_LIST", "SESSIONS_COUNT"},
            aid \in {"q1", ""},
            st \in {"all", "upcoming"}}
    \cup {QueryDesc(qt, f, "Sessions and athletes") :
            qt \in QueryTypes \cup {"TRAINERS_LIST"},
            f \in {NoValue, QueryFilters(UndefinedDateString, UndefinedDateString,
                                         Undefined, "all")}}

InitQuery ==
    /\ ParseIdle
    /\ \E n \in StoreSizes :
        /\ athletes = QuerySeedAthletes(n)
        /\ sessions = QuerySeedSessions(n)
    /\ nextId = 0
    /\ now = [day |-> 15, slot |-> LastSlot - 1]
    /\ users = {}
    /\ trainers = {}
    /\ checkIns = {}
    /\ RecurIdle
    /\ CallsIdle

\* executeQuery(data.query, trainerId) runs to its result.
QueryCall ==
    /\ exec.pc \in {"idle", "done"}
    /\ exec.calls < MaxCalls
    /\ \E q \in Queries, tid \in TrainerIds :
        \E res \in executeQuery(q, tid, athletes, sessions, now) :
            exec' = [pc |-> "done", calls |-> exec.calls + 1, query |-> q,
                     trainerId |-> tid, before |-> Snapshot, result |-> res]
    /\ UNCHANGED <<parseVars, dbVars, recurVars, reqs, admin>>

NextQuery ==
    \/ QueryCall
    \/ ClockTick

SpecQuery == InitQuery /\ [][NextQuery]_vars

\* The rows of a list result.
ListedRows(result) ==
    CASE result.queryResult.t = "sessions" -> result.queryResult.sessions
      [] result.queryResult.t = "athletes" -> result.queryResult.athletes
      [] OTHER -> {}

\* C15: executeQuery leaves the store as it was for every query type and
\* filter, and a list query (SESSIONS_LIST, ATHLETES_LIST) returns at most 50
\* rows, however many rows match.
C15_ReadOnlyAtMostFifty ==
    exec.pc = "done" =>
        /\ Snapshot = exec.before
        /\ exec.result.success => Cardinality(ListedRows(exec.result)) <= Take

\* The part of C15 the code keeps: the store is as before, and SESSIONS_LIST
\* returns at most 50 rows, the first in time.
C15_ReadOnlySessionsAtMostFifty ==
    exec.pc = "done" =>
        /\ Snapshot = exec.before
        /\ (exec.result.success /\ exec.result.queryResult.t = "sessions") =>
            Cardinality(exec.result.queryResult.sessions) <= Take

(***************************************************************************)
(* The natural-language endpoints.  POST /api/parse asks the hosted model, *)
(* parses its reply and, with execute = true, hands the parse result to    *)
(* executeAction.  The sources hold two builds of the executor: one whose  *)
(* switch has no case for QUERY, and one that sends QUERY to executeQuery. *)
(***************************************************************************)
ExecutorBuilds == {"actions.ts", "part_008"}

\* if (!data.query)
HasQuery(data) == "query" \in DOMAIN data /\ data.query.t # "undefined"

executeActionOf(build, parseResult, trainerId, ath, ses, n, clock) ==
    IF build = "part_008" /\ parseResult.action = "QUERY"
    THEN IF ~HasQuery(parseResult.data)
         THEN {Outcome(ExecResult(FALSE, "No query data provided", "Missing query data"),
                       ath, ses, n)}
         ELSE {Outcome(res, ath, ses, n) :
                res \in executeQuery(parseResult.data.query, trainerId, ath, ses, clock)}
    ELSE executeAction(parseResult, trainerId, ath, ses, n, clock)

\* What the call of the hosted model comes to: it throws, its response has no
\* text block, or it replies with a text.
ModelErrors == {"401 invalid x-api-key", "Connection error."}

ModelThrows(message) == [kind |-> "throws", message |-> message, text |-> <<>>]
ModelNoText == [kind |-> "noText", message |-> "", text |-> <<>>]
ModelText(text) == [kind |-> "text", message |-> "", text |-> text]

NotUnderstoodMessage == "I could not understand that request. Please try rephrasing."

\* The catch block of parseSchedulingInput.
SchedulingFallback ==
    [action |-> "UNKNOWN",
     confidence |-> 0,
     data |-> [session |-> NoValue, athlete |-> NoValue],
     clarificationNeeded |-> NotUnderstoodMessage,
     humanReadableSummary |-> "Unable to parse request"]

parseSchedulingInput(outcome) ==
    IF outcome.kind = "text"
    THEN parseClaudeResponse(outcome.text).result
    ELSE SchedulingFallback

\* The replies of the model to the trainer endpoint.
QueryJson(queryType, filters, description) ==
    MkObj([queryType |-> queryType, filters |-> filters, description |-> description])

FiltersJson ==
    {MkObj([athleteId |-> JNull, athleteName |-> JNull, dateFrom |-> JNull,
            dateTo |-> JNull, status |-> JStr("all")]),
     MkObj([athleteId |-> JStr("a1"), athleteName |-> JNull,
            dateFrom |-> JStr(IsoString(0, 15, 0)), dateTo |-> JStr(IsoString(0, 30, 1)),
            status |-> JStr("upcoming")])}

ReplyOf(action, data, clarification) ==
    MkObj([action |-> JStr(action), confidence |-> JNum(9), data |-> data,
           clarificationNeeded |-> clarification,
           humanReadableSummary |-> JStr("Summary")])

QueryReplies ==
    {ReplyOf("QUERY",
             MkObj([session |-> Absent, athlete |-> Absent,
                    query |-> QueryJson(JStr(qt), f, JStr("Sessions and athletes"))]),
             JNull) :
        qt \in QueryTypes \cup {"TRAINERS_LIST"}, f \in FiltersJson \cup {Absent}}
    \cup {ReplyOf("QUERY", MkObj([session |-> Absent, athlete |-> Absent, query |-> q]),
                  JNull) : q \in {Absent, JStr("sessions")}}

OtherReplies ==
    {ReplyOf("UNKNOWN", MkObj([session |-> Absent]), JStr("Which John do you mean?")),
     ReplyOf("CREATE_ATHLETE",
             MkObj([athlete |-> MkObj([firstName |-> JStr("Ann"), lastName |-> JStr("Lee"),
                                       email |-> Absent])]), JNull),
     ReplyOf("CREATE_SESSION",
             MkObj([session |->
                MkObj([athleteId |-> JNull, athleteName |-> JStr(<<"Ann", "Lee">>),
                       isNewAthlete |-> JBool(TRUE),
                       scheduledAt |-> JStr(IsoString(0, 16, 1)),
                       duration |-> JNum(60), recurrencePattern |-> JNull,
                       recurrenceEndDate |-> JNull])]), JNull),
     ReplyOf("DELETE_ALL", MkObj([session |-> Absent]), JNull)}

RouteReplyTexts ==
    {<<TokJson(j)>> : j \in QueryReplies \cup OtherReplies}
    \cup {<<TokFenceJson, TokJson(j), TokFence>> : j \in OtherReplies}
    \cup {<<>>, <<TokProse>>, <<TokJson(JNull)>>}
    \cup {<<TokProse, TokJson(j)>> : j \in OtherReplies}

ModelOutcomes ==
    {ModelThrows(m) : m \in ModelErrors}
    \cup {ModelNoText}
    \cup {ModelText(text) : text \in RouteReplyTexts}

RouteResponse(status, success, error, preview, parsed, execution) ==
    [status |-> status, success |-> success, error |-> error, preview |-> preview,
     parsed |-> parsed, execution |-> execution, raw |-> <<>>]

ErrorResponse(status, error) ==
    RouteResponse(status, FALSE, error, FALSE, NoValue, NoValue)

\* An input the handler does not read on this path takes one value only.
Unread(skipped, fixed) == skipped => fixed

\* session.trainerId, or the trainer an admin names.
ParseTrainerId(principal, targetTrainerId) ==
    IF principal.role = "ADMIN" /\ ~Falsy(targetTrainerId)
    THEN targetTrainerId
    ELSE principal.trainerId

\* The response of POST /api/parse before the model is asked, if it has one.
ParseRouteGate(principal, trainerId, hasText) ==
    IF principal = NoPrincipal THEN ErrorResponse(401, "Unauthorized")
    ELSE IF trainerId = Null THEN ErrorResponse(400, "No trainer context available")
    ELSE IF ~hasText THEN ErrorResponse(400, "Text input is required")
    ELSE IF \A t \in trainers : t.id # trainerId THEN ErrorResponse(404, "Trainer not found")
    ELSE NoValue

RouteCall(principal, trainerId, outcome, build, execute, parseResult, result, response,
          after) ==
    [pc |-> "done", calls |-> reqs.started + 1, principal |-> principal,
     trainerId |-> trainerId, outcome |-> outcome, build |-> build,
     execute |-> execute, before |-> Db, after |-> after, parseResult |-> parseResult,
     result |-> result, response |-> response]

\* POST /api/parse
ParseRoute ==
    /\ exec.pc \in {"idle", "done"}
    /\ reqs.started < MaxCalls
    /\ reqs' = [reqs EXCEPT !.started = @ + 1]
    /\ \E principal \in Principals, target \in {Undefined, "t2", "t9"},
          hasText \in BOOLEAN, execute \in BOOLEAN,
          build \in ExecutorBuilds, outcome \in ModelOutcomes :
        \E tid \in {ParseTrainerId(principal, target)} :
        \E gate \in {ParseRouteGate(principal, tid, hasText)} :
          /\ Unread(principal.role # "ADMIN", target = Undefined)
          /\ Unread(gate # NoValue, outcome = ModelNoText /\ ~execute)
          /\ Unread(~execute, build = "actions.ts")
          /\
            IF gate # NoValue
            THEN /\ exec' = RouteCall(principal, tid, outcome, build, execute,
                                      NoValue, NoValue, gate, Db)
                 /\ UNCHANGED <<athletes, sessions, nextId>>
            ELSE \E pr \in {parseSchedulingInput(outcome)} :
                IF ~execute
                THEN /\ exec' = RouteCall(principal, tid, outcome, build, execute, pr,
                            NoValue,
                            RouteResponse(200, TRUE, Undefined, TRUE, pr, NoValue), Db)
                     /\ UNCHANGED <<athletes, sessions, nextId>>
                ELSE \E o \in executeActionOf(build, pr, tid, athletes, sessions,
                                              nextId, now) :
                     /\ athletes' = o.athletes
                     /\ sessions' = o.sessions
                     /\ nextId' = o.nextId
                     /\ exec' = RouteCall(principal, tid, outcome, build, execute, pr,
                            o.result,
                            RouteResponse(200, o.result.success, Undefined, FALSE, pr,
                                          o.result),
                            [Db EXCEPT !.athlete = o.athletes, !.session = o.sessions])
    /\ UNCHANGED <<parseVars, now, otherTables, recurVars, admin>>

\* The replies of the model to the admin endpoint: JSON.parse hands the value
\* to executeAdminAction as it is.
AdminRouteResults ==
    {AdminParseResultOf(<<op>>, Null, FALSE) : op \in DeleteOps \cup ReadOps}
    \cup {AdminParseResultOf(<<op>>, Null, TRUE) : op \in ReadOps}
    \cup {AdminParseResultOf(<<>>, "Which trainer do you mean?", FALSE)}

AdminReplyTexts ==
    {<<TokJson(pr)>> : pr \in AdminRouteResults}
    \cup {<<TokFenceJson, TokJson(pr), TokFence>> : pr \in AdminRouteResults}
    \cup {<<>>, <<TokProse>>}
    \cup {<<TokProse, TokJson(pr)>> : pr \in AdminRouteResults}

AdminModelOutcomes ==
    {ModelThrows(m) : m \in ModelErrors}
    \cup {ModelNoText}
    \cup {ModelText(text) : text \in AdminReplyTexts}

\* The response of POST /api/admin/parse before the model is asked, if any.
AdminParseGate(principal, hasText) ==
    IF principal = NoPrincipal THEN ErrorResponse(401, "Unauthorized")
    ELSE IF principal.role # "ADMIN" THEN ErrorResponse(403, "Forbidden - Admin only")
    ELSE IF ~hasText THEN ErrorResponse(400, "Text input is required")
    ELSE NoValue

\* error instanceof Error ? error.message : 'An error occurred'
CaughtMessage(outcome) == outcome.message

\* The response of POST /api/admin/parse to a model call that gave no reply to
\* parse, if it has one: the outer catch, the missing text block, the inner
\* catch of JSON.parse.
AdminReplyGate(outcome) ==
    IF outcome.kind = "throws" THEN ErrorResponse(500, CaughtMessage(outcome))
    ELSE IF outcome.kind = "noText" THEN ErrorResponse(500, "No response from AI")
    ELSE IF ~JsonParse(StripFences(outcome.text)).ok
    THEN [ErrorResponse(200, "Could not parse AI response") EXCEPT !.raw = outcome.text]
    ELSE NoValue

AdminCall(principal, outcome, execute, parseResult, result, response, after) ==
    [pc |-> "executed", principal |-> principal, outcome |-> outcome,
     execute |-> execute, before |-> Db, after |-> after, parseResult |-> parseResult,
     result |-> result, response |-> response]

\* POST /api/admin/parse
AdminParseRoute ==
    /\ admin.pc \in {"idle", "executed"}
    /\ reqs.started < MaxCalls
    /\ reqs' = [reqs EXCEPT !.started = @ + 1]
    /\ \E principal \in Principals, hasText \in BOOLEAN, execute \in BOOLEAN,
          outcome \in AdminModelOutcomes :
        \E gate \in {AdminParseGate(principal, hasText)} :
          /\ Unread(gate # NoValue, outcome = ModelNoText /\ ~execute)
          /\ Unread(AdminReplyGate(outcome) # NoValue, ~execute)
          /\
            IF gate # NoValue
            THEN /\ admin' = AdminCall(principal, outcome, execute, NoValue, NoValue, gate,
                                       Db)
                 /\ UNCHANGED <<dbVars>>
            ELSE \E reply \in {AdminReplyGate(outcome)} :
                IF reply # NoValue
                THEN /\ admin' = AdminCall(principal, outcome, execute, NoValue, NoValue,
                                           reply, Db)
                     /\ UNCHANGED <<dbVars>>
                ELSE \E pr \in {JsonParse(StripFences(outcome.text)).value} :
                    IF ~execute
                    THEN /\ admin' = AdminCall(principal, outcome, execute, pr, NoValue,
                                RouteResponse(200, TRUE, Undefined, TRUE, pr, NoValue), Db)
                         /\ UNCHANGED <<dbVars>>
                    ELSE \E r \in {executeAdminAction(pr, Db, nextId)} :
                         /\ StoreIs(r.db)
                         /\ nextId' = r.nextId
                         /\ UNCHANGED now
                         /\ admin' = AdminCall(principal, outcome, execute, pr,
                                [success |-> r.success, message |-> r.message],
                                RouteResponse(200, r.success, Undefined, FALSE, pr,
                                    [success |-> r.success, message |-> r.message]),
                                r.db)
    /\ UNCHANGED <<parseVars, recurVars, exec>>

InitRoutes ==
    /\ ParseIdle
    /\ users = AdminSeedUsers
    /\ trainers = AdminSeedTrainers
    /\ athletes = SeedAthletes
    /\ sessions = AdminSeedSessions(FALSE)
    /\ checkIns = {}
    /\ nextId = 10
    /\ now = [day |-> 15, slot |-> LastSlot - 1]
    /\ RecurIdle
    /\ CallsIdle

NextRoutes ==
    \/ ParseRoute
    \/ AdminParseRoute
    \/ ClockTick

SpecRoutes == InitRoutes /\ [][NextRoutes]_vars

(***************************************************************************)
(* C14.  For a reply of the model with action QUERY and a well-formed      *)
(* query descriptor (a query type of the enumeration, filters, a           *)
(* description), the trainer pipeline, parseClaudeResponse followed by     *)
(* executeAction, dispatches on the query type and returns success with    *)
(* the result of that query.                                               *)
(***************************************************************************)
ReplyValue(outcome) == JsonParse(StripFences(outcome.text)).value

WellFormedQuery(q) ==
    /\ q.t = "object"
    /\ ZString(q, "queryType")
    /\ q.f["queryType"].v \in QueryTypes
    /\ Has(q, "filters")
    /\ q.f["filters"].t = "object"
    /\ ZString(q, "description")

IsQueryReply(outcome) ==
    /\ outcome.kind = "text"
    /\ JsonParse(StripFences(outcome.text)).ok
    /\ ParseResultSchema(ReplyValue(outcome))
    /\ ReplyValue(outcome).f["action"].v = "QUERY"
    /\ Has(ReplyValue(outcome).f["data"], "query")
    /\ WellFormedQuery(ReplyValue(outcome).f["data"].f["query"])

\* The query descriptor a reply carries.
QueryOfReply(outcome) ==
    LET q == ReplyValue(outcome).f["data"].f["query"]
        f == q.f["filters"]
    IN  QueryDesc(q.f["queryType"].v,
                  QueryFilters(OrUndefinedDate(f, "dateFrom"), OrUndefinedDate(f, "dateTo"),
                               OrUndefined(f, "athleteId"), OrUndefined(f, "status")),
                  q.f["description"].v)

Executed(call) ==
    /\ call.response.status = 200
    /\ ~call.response.preview
    /\ call.response.execution # NoValue

C14_QueryPipeline ==
    (exec.pc = "done" /\ Executed(exec) /\ IsQueryReply(exec.outcome)) =>
        /\ exec.response.success
        /\ \E clock \in {[now EXCEPT !.slot = sl] : sl \in 0..LastSlot} :
            exec.result \in executeQuery(QueryOfReply(exec.outcome), exec.trainerId,
                                         exec.before.athlete, exec.before.session, clock)

(***************************************************************************)
(* C16.  On both natural-language endpoints, when the call of the hosted   *)
(* model fails or its reply cannot be parsed, the response carries a fixed *)
(* user-facing message and never the text of the exception, and the store  *)
(* is as it was before the request.                                        *)
(***************************************************************************)
FixedMessages ==
    {NotUnderstoodMessage, ParseFailedMessage, "No response from AI",
     "Could not parse AI response", "An error occurred",
     "An error occurred while parsing"}

\* The request passed the checks that come before the model is asked.
Asked(call) == call.response.status \in {200, 500}

\* The texts a response shows to its reader.
ResponseTexts(r) ==
    {r.error}
    \cup (IF r.parsed = NoValue THEN {} ELSE {r.parsed.clarificationNeeded})
    \cup (IF r.execution = NoValue THEN {} ELSE {r.execution.message})

ModelFailed(outcome) == outcome.kind \in {"throws", "noText"}

FixedMessageOnly(call) ==
    /\ ResponseTexts(call.response) \cap FixedMessages # {}
    /\ ResponseTexts(call.response) \cap ModelErrors = {}
    /\ call.after = call.before

TrainerModelFailure ==
    /\ exec.pc = "done"
    /\ Asked(exec)
    /\ \/ ModelFailed(exec.outcome)
       \/ exec.outcome.kind = "text" /\ ParseTry(exec.outcome.text).threw

AdminModelFailure ==
    /\ admin.pc = "executed"
    /\ Asked(admin)
    /\ \/ ModelFailed(admin.outcome)
       \/ admin.outcome.kind = "text" /\ ~JsonParse(StripFences(admin.outcome.text)).ok

C16_FixedMessageNoWrite ==
    /\ TrainerModelFailure => FixedMessageOnly(exec)
    /\ AdminModelFailure => FixedMessageOnly(admin)

\* The part of C16 the code keeps: the trainer endpoint answers with a fixed
\* message, and neither endpoint writes to the store.
C16_TrainerFixedNoWrite ==
    /\ TrainerModelFailure => FixedMessageOnly(exec)
    /\ AdminModelFailure => admin.after = admin.before

(***************************************************************************)
(* C17.  Every Session the trainer pipeline writes for the acting trainer  *)
(* T (CREATE_SESSION, CREATE_RECURRING_SESSION) references an Athlete      *)
(* whose trainerId is T, and CANCEL_SESSION cancels only a Session whose   *)
(* trainerId is T, whatever athlete id the parse result names.             *)
(***************************************************************************)
\* The sessions the call in hand has written, and those it has cancelled.
WrittenByCall == {x \in sessions : \A old \in exec.before.sessions : old.id # x.id}

CancelledByCall ==
    {x \in sessions : x.cancelled /\ \E old \in exec.before.sessions :
                                        old.id = x.id /\ ~old.cancelled}

C17_OwnAthletesOnly ==
    exec.pc \in {"recurring", "done"} =>
        /\ \A x \in WrittenByCall :
            /\ x.trainerId = exec.trainerId
            /\ \E a \in athletes : a.id = x.athleteId /\ a.trainerId = exec.trainerId
        /\ \A x \in CancelledByCall : x.trainerId = exec.trainerId

\* The part of C17 the code keeps: the sessions written and cancelled are
\* sessions of the acting trainer.
C17_OwnSessionsOnly ==
    exec.pc \in {"recurring", "done"} =>
        /\ \A x \in WrittenByCall : x.trainerId = exec.trainerId
        /\ \A x \in CancelledByCall : x.trainerId = exec.trainerId

(***************************************************************************)
(* C18.  When the admin parse result is flagged isQuery and the batch      *)
(* succeeds, the result carries the first operation's result as read data  *)
(* (the count and the items for an array, the value itself otherwise) and  *)
(* no undo operations, whatever operations the batch holds.                *)
(***************************************************************************)
QueryBatchSucceeded ==
    /\ admin.pc = "executed"
    /\ BatchRan
    /\ admin.parseResult.isQuery
    /\ admin.result.success

\* What the first operation of the batch returned.
FirstResult == RunOp(admin.before, admin.beforeId, BatchOps[1]).result

C18_QueryDataNoUndo ==
    QueryBatchSucceeded =>
        /\ admin.result.undoOperations = <<>>
        /\ admin.result.hasData
        /\ admin.result.data =
            IF FirstResult.t = "array"
            THEN [t |-> "list", count |-> Cardinality(FirstResult.ids),
                  items |-> FirstResult]
            ELSE [t |-> "value", result |-> FirstResult]

\* A batch flagged isQuery whose first operation lists rows and whose second
\* creates one has succeeded.
C18_Witness ==
    /\ QueryBatchSucceeded
    /\ Len(BatchOps) = MaxOps
    /\ BatchOps[1].method = "findMany"
    /\ BatchOps[MaxOps].method = "create"
    /\ admin.result.data.t = "list"
    /\ admin.result.data.count > 0
    /\ Db # admin.before

(***************************************************************************)
(* C19.  A check-in stores its row with sessionId set and matched = true   *)
(* only for a session of the same athlete that the lookup of that check-in *)
(* found scheduled on the current local day, not cancelled and not         *)
(* completed; otherwise the row has sessionId null and matched = false.    *)
(* Rows once stored stay as they are, and in every state no session is     *)
(* referenced by more than one CheckIn.                                    *)
(***************************************************************************)
\* The lookup of a check-in has just named a session.
LookupNamed(i) ==
    /\ reqs'.slot[i] # reqs.slot[i]
    /\ reqs'.slot[i].pc = "create"
    /\ reqs'.slot[i].found # Null

LookupSound(i) ==
    \E x \in sessions :
        /\ x.id = reqs'.slot[i].found
        /\ x.athleteId = reqs'.slot[i].athleteId
        /\ x.scheduledAt.day = now.day
        /\ ~x.cancelled
        /\ ~x.completed

\* The row a step stores is the row of a check-in at its create.
StoredByCheckIn(c) ==
    \E i \in ReqSlots :
        /\ reqs.slot[i].pc = "create"
        /\ reqs.slot[i].kind = "checkin"
        /\ c.athleteId = reqs.slot[i].athleteId
        /\ c.sessionId = reqs.slot[i].found

OneCheckInPerSession(rows) ==
    \A c, d \in rows : (c.sessionId # Null /\ c.sessionId = d.sessionId) => c = d

CheckInStep ==
    /\ \A i \in ReqSlots : LookupNamed(i) => LookupSound(i)
    /\ \A c \in checkIns' \ checkIns : StoredByCheckIn(c)
    /\ checkIns \subseteq checkIns'
    /\ \A c \in checkIns' : c.matched <=> c.sessionId # Null
    /\ OneCheckInPerSession(checkIns')

C19_CheckInRows == [][CheckInStep]_vars

\* One check-in found no session, one stored the session it found, and one
\* was turned down by the index on sessionId.
C19_Witness ==
    /\ \E c, d \in checkIns : c.matched /\ ~d.matched
    /\ \E i \in ReqSlots :
        /\ reqs.slot[i].pc = "done"
        /\ reqs.slot[i].kind = "checkin"
        /\ reqs.slot[i].status = 500
        /\ \E c \in checkIns : c.sessionId = reqs.slot[i].found

(***************************************************************************)
(* C20.  In the handlers of more than one storage call (the new athlete,   *)
(* then the session; the parent, then the children), when a later storage  *)
(* call throws the handler returns success = false, and the rows its       *)
(* earlier calls wrote (the new Athlete, the parent Session, the children  *)
(* created so far) remain stored.                                          *)
(***************************************************************************)
\* The session's create threw after the call had created its athlete.
CreateThrewAfterAthlete(r) ==
    /\ r.pc = "done"
    /\ Len(r.log) = 1
    /\ r.log[1].table = "Athlete"

\* A child's create (or the parent's) threw after earlier rows were written.
RecurThrewAfterWrites ==
    /\ recur.pc = "done"
    /\ ~recur.result.success
    /\ recur.athleteId # recur.sessionData.athleteId \/ recur.parentId # Null

SessionStored(id, parentId) ==
    \E x \in sessions : x.id = id /\ x.parentSessionId = parentId

C20_EarlierRowsRemain ==
    /\ \A i \in CreateSlots :
        CreateThrewAfterAthlete(reqs.slot[i]) =>
            /\ ~reqs.slot[i].result.success
            /\ reqs.slot[i].result.message = "Failed to create session"
            /\ \E a \in athletes : a.id = reqs.slot[i].log[1].id
    /\ RecurThrewAfterWrites =>
        /\ recur.result.message = "Failed to create recurring sessions"
        /\ recur.athleteId # recur.sessionData.athleteId =>
            \E a \in athletes : a.id = recur.athleteId
        /\ recur.parentId # Null => SessionStored(recur.parentId, Null)
        /\ \A k \in 1..Len(recur.children) :
            SessionStored(recur.children[k], recur.parentId)

\* A createSession call failed with its new athlete stored, and a recurring
\* call failed after its parent and a child were stored.
C20_Witness ==
    /\ \E i \in CreateSlots : CreateThrewAfterAthlete(reqs.slot[i])
    /\ RecurThrewAfterWrites
    /\ recur.parentId # Null
    /\ Len(recur.children) > 0

(***************************************************************************)
(* C21.  No admin operation reaches storage with a passwordHash equal to   *)
(* the reserved placeholder token or to a reserved-prefix token: a         *)
(* password field of the operation's arguments that carries such a token,  *)
(* at any nesting depth, is replaced by a hash before the storage call.    *)
(***************************************************************************)
\* HASH_PLACEHOLDER and the tokens that start with PASSWORD_PREFIX
ReservedTokens == {HashPlaceholder, CustomPasswordToken}

C21_NoReservedTokenStored ==
    \A u \in users : u.passwordHash \notin ReservedTokens

\* The token of data.passwordHash itself is replaced: no User.create of a
\* batch leaves the token in the row it wrote by its own data.
C21_TopLevelTokenHashed ==
    \A u \in users :
        u.passwordHash \in ReservedTokens =>
            \E k \in 1..Len(BatchOps) :
                /\ BatchOps[k].model = "Trainer"
                /\ BatchOps[k].method = "create"
                /\ "user" \in DOMAIN BatchOps[k].args.data

(***************************************************************************)
(* processArgs on nested argument objects.  The values are JSON values     *)
(* with the elements of an array kept; a string is the record of what the  *)
(* date pattern and the Date constructor read from it.                     *)
(***************************************************************************)
\* A string that does not start with four digits, two digits, two digits, T.
ArgText(text) == [iso |-> FALSE, text |-> text]

ArgArr(elements) == [t |-> "array", e |-> elements]

\* A Date object.
JDate(d) == [t |-> "date", v |-> d]

\* /^\d{4}-\d{2}-\d{2}T/.test(value)
MatchesDateTimePrefix(str) == str.iso

\* passwordHash.slice(PASSWORD_PREFIX.length, -1)
SlicedPassword(text) ==
    CASE text = "$PASSWORD:secret$" -> "secret"
      [] text = "$PASSWORD:secret" -> "secre"
      [] OTHER -> ""

\* passwordHash.startsWith(PASSWORD_PREFIX)
StartsWithPasswordPrefix(text) == text \in {"$PASSWORD:secret$", "$PASSWORD:secret"}

\* The two tests on processed.data?.passwordHash, and the hash assigned.
HashedArgs(processed) ==
    IF /\ "data" \in DOMAIN processed.f
       /\ processed.f.data.t = "object"
       /\ "passwordHash" \in DOMAIN processed.f.data.f
       /\ processed.f.data.f.passwordHash.t = "string"
       /\ ~processed.f.data.f.passwordHash.v.iso
    THEN LET text == processed.f.data.f.passwordHash.v.text
             hash == IF text = HashPlaceholder THEN HashPassword("trainer123")
                     ELSE IF StartsWithPasswordPrefix(text)
                          THEN HashPassword(SlicedPassword(text))
                          ELSE text
         IN  [processed EXCEPT !.f.data.f.passwordHash = JStr(ArgText(hash))]
    ELSE processed

\* convertDates: every key of the object; a matching string becomes a Date,
\* an object that is no array is walked, anything else stays.
RECURSIVE convertDates(_)
convertDates(obj) ==
    JObj([key \in DOMAIN obj.f |->
            IF obj.f[key].t = "string" /\ MatchesDateTimePrefix(obj.f[key].v)
            THEN JDate(NewDate(obj.f[key].v))
            ELSE IF obj.f[key].t = "object"
                 THEN convertDates(obj.f[key])
                 ELSE obj.f[key]])

\* JSON.parse(JSON.stringify(args)): a copy that shares nothing with args.
\* The arguments are JSON values, so the copy has the same members.
RECURSIVE JsonCopy(_)
JsonCopy(value) ==
    CASE value.t = "object" -> JObj([key \in DOMAIN value.f |-> JsonCopy(value.f[key])])
      [] value.t = "array" ->
            ArgArr([i \in 1..Len(value.e) |-> JsonCopy(value.e[i])])
      [] OTHER -> value

\* The caller's object after the call: the writes went to the copy.
ArgsAfterCall(args, processed) == args

\* processArgs: what it returns, and the caller's object afterwards.
ProcessedArgs(args) ==
    LET processed == convertDates(HashedArgs(JsonCopy(args)))
    IN  [processed |-> processed, args |-> ArgsAfterCall(args, processed)]

ArgLeaves ==
    {JStr(IsoString(0, 18, 1)), JStr(IsoString(1, 31, 0)), JStr(ArgText("2024-01-18")),
     JStr(ArgText("John")), JNum(60), JNull}

PasswordLeaves ==
    {JStr(ArgText(HashPlaceholder)), JStr(ArgText("$PASSWORD:secret$")),
     JStr(ArgText("$PASSWORD:secret")), JStr(ArgText("hunter2"))}

\* The argument objects: a date directly under data and under where, in a
\* filter object, in the list of an `in` filter, in the objects of an OR
\* list, directly under args, and beside a password.
ArgObjects ==
    {JObj([data |-> JObj([scheduledAt |-> x, notes |-> y])]) :
        x \in ArgLeaves, y \in ArgLeaves}
    \cup {JObj([where |-> JObj([scheduledAt |-> JObj([gte |-> x, lte |-> y])])]) :
        x \in ArgLeaves, y \in ArgLeaves}
    \cup {JObj([where |-> JObj([scheduledAt |-> JObj([in |-> ArgArr(<<x, y>>)])])]) :
        x \in ArgLeaves, y \in ArgLeaves}
    \cup {JObj([where |-> JObj([OR |-> ArgArr(<<JObj([scheduledAt |-> x]),
                                               JObj([scheduledAt |-> JObj([gte |-> y])])>>)])]) :
        x \in ArgLeaves, y \in ArgLeaves}
    \cup {JObj([cursor |-> x, where |-> JObj([id |-> JStr(ArgText("s1"))]),
                data |-> JObj([scheduledAt |-> y])]) :
        x \in ArgLeaves, y \in ArgLeaves}
    \cup {JObj([data |-> JObj([passwordHash |-> p, createdAt |-> x])]) :
        p \in PasswordLeaves, x \in ArgLeaves}

InitArgs ==
    /\ ParseIdle
    /\ DbEmpty
    /\ RecurIdle
    /\ exec = ExecIdleState
    /\ reqs = ReqsIdleState
    /\ \E a \in ArgObjects : admin = [pc |-> "args", args |-> a]

\* const processedArgs = await processArgs(args)
ProcessArgsCall ==
    /\ admin.pc = "args"
    /\ \E r \in {ProcessedArgs(admin.args)} :
        admin' = [pc |-> "processed", given |-> admin.args, args |-> r.args,
                  processed |-> r.processed]
    /\ UNCHANGED <<parseVars, dbVars, recurVars, exec, reqs>>

NextArgs == ProcessArgsCall

SpecArgs == InitArgs /\ [][NextArgs]_vars

(***************************************************************************)
(* C22.  processArgs converts every string value that starts with an ISO   *)
(* 8601 date-time prefix to a date value wherever it occurs in the         *)
(* argument object, inside nested objects and inside arrays too, leaves    *)
(* every other value unchanged, and does not mutate the caller's object.   *)
(***************************************************************************)
\* The value with every matching string, at any place, made a Date.
RECURSIVE ConvertedEverywhere(_)
ConvertedEverywhere(value) ==
    CASE value.t = "string" ->
            IF MatchesDateTimePrefix(value.v) THEN JDate(NewDate(value.v)) ELSE value
      [] value.t = "object" ->
            JObj([key \in DOMAIN value.f |-> ConvertedEverywhere(value.f[key])])
      [] value.t = "array" ->
            ArgArr([i \in 1..Len(value.e) |-> ConvertedEverywhere(value.e[i])])
      [] OTHER -> value

RECURSIVE HasArray(_)
HasArray(value) ==
    CASE value.t = "array" -> TRUE
      [] value.t = "object" -> \E key \in DOMAIN value.f : HasArray(value.f[key])
      [] OTHER -> FALSE

ProcessedAsClaimed ==
    /\ admin.processed = ConvertedEverywhere(HashedArgs(admin.given))
    /\ admin.args = admin.given

C22_DatesConvertedEverywhere ==
    admin.pc = "processed" => ProcessedAsClaimed

\* Outside arrays the walk reaches every string, and the caller's object is
\* as it was.
C22_DatesConvertedOutsideArrays ==
    (admin.pc = "processed" /\ ~HasArray(admin.given)) => ProcessedAsClaimed

(***************************************************************************)
(* C23.  executeAction never throws to its caller: for every parse result, *)
(* one whose session, athlete or query descriptor is missing and one whose *)
(* storage call throws included, it resolves to a result, and in these     *)
(* cases to one with success = false and a message.                        *)
(***************************************************************************)
\* The descriptor the handler of the action reads is undefined.
DescriptorMissing(parseResult) ==
    \/ /\ parseResult.action \in {"CREATE_SESSION", "CREATE_RECURRING_SESSION",
                                  "CANCEL_SESSION"}
       /\ parseResult.data.session.t = "undefined"
    \/ /\ parseResult.action = "CREATE_ATHLETE"
       /\ parseResult.data.athlete.t = "undefined"

\* What String(error) is in the results of the catch blocks.
ThrownErrors == {"TypeError", "Invalid Date", "P2002", "storage error"}

Resolved(result) == "thrown" \notin DOMAIN result

FailureWithMessage(result) == ~result.success /\ ~Falsy(result.message)

NoEmail == StoredEmail("", "")

\* `${name.toLowerCase().replace(/\s+/g, '.')}@dsc.com`, for the name Nina Ray
GeneratedTrainerEmail(name) ==
    [first |-> "nina", last |-> "ray", stamp |-> NoDate, domain |-> "dsc.com"]

EmailPrincipals ==
    {NoPrincipal, [role |-> "ADMIN", trainerId |-> Null],
     [role |-> "TRAINER", trainerId |-> "t1"]}

\* The bodies of POST /api/athletes: with and without a first name, with a
\* stored email, a new one, and none.
AthletePostBodies ==
    {[firstName |-> f, lastName |-> "Park", email |-> e, trainerId |-> t] :
        f \in {"", "Zoe"},
        e \in {StoredEmail("john", "smith"), StoredEmail("zoe", "park"), NoEmail},
        t \in {Undefined, "t2"}}

\* The bodies of PATCH /api/athletes/[id]: the email of another athlete, the
\* athlete's own, a new one, and none.
AthletePatchBodies ==
    {[firstName |-> f, email |-> e] :
        f \in {"", "Johnny"},
        e \in {StoredEmail("ann", "lee"), StoredEmail("john", "smith"),
               StoredEmail("zoe", "park"), NoEmail}}

PatchedAthleteIds == {"a1", "a2", "a9"}

\* The bodies of POST /api/admin/trainers.
TrainerPostBodies ==
    {[name |-> n, email |-> e] :
        n \in {"", "Nina Ray"},
        e \in {StoredEmail("mike", "jones"), StoredEmail("nina", "ray"), NoEmail}}

EmailKinds == {"postAthlete", "patchAthlete", "postTrainer"}

\* A request: its principal, its body, the athlete it names; the status it
\* answered with; whether the email it carried was stored in another row
\* when its storage call ran; whether that call changed a row.
EmailRequest(kind, principal, id, body, pc, status, taken, changed) ==
    [pc |-> pc, kind |-> kind, principal |-> principal, id |-> id, body |-> body,
     status |-> status, taken |-> taken, changed |-> changed]

EmailFrame == UNCHANGED <<parseVars, sessions, checkIns, now, recurVars, exec, admin>>

\* The trainer a new athlete goes to: the principal's, or for an admin the
\* body's.
PostTrainerId(principal, body) ==
    IF principal.role = "ADMIN" /\ ~Falsy(body.trainerId) THEN body.trainerId
    ELSE principal.trainerId

\* email || `${first}.${last}.${Date.now()}@placeholder.com`
PostAthleteEmail(body, clock) ==
    IF body.email = NoEmail
    THEN PlaceholderEmail(body.firstName, body.lastName, clock)
    ELSE body.email

\* POST /api/athletes: the checks, then the create; a violation of the unique
\* index on the email is answered with 409.
AthletePost ==
    /\ CanCreate
    /\ \E principal \in EmailPrincipals, body \in AthletePostBodies :
        LET trainerId == PostTrainerId(principal, body)
            email == PostAthleteEmail(body, now)
            gate == IF principal.role = "none" THEN 401
                    ELSE IF trainerId = Null THEN 400
                    ELSE IF body.firstName = "" THEN 400
                    ELSE 0
            ok == AthleteCreateOk(athletes, email)
            done(status, taken, changed) ==
                EmailRequest("postAthlete", principal, Null, body, "done", status,
                             taken, changed)
        IN  IF gate # 0
            THEN /\ reqs' = Started(done(gate, FALSE, FALSE))
                 /\ UNCHANGED <<athletes, nextId>>
            ELSE IF ok
            THEN /\ athletes' = athletes \cup
                        {AthleteRow(NewId("a", nextId + 1), body.firstName,
                                    body.lastName, email, trainerId)}
                 /\ nextId' = nextId + 1
                 /\ reqs' = Started(done(201, FALSE, TRUE))
            ELSE /\ reqs' = Started(done(409, TRUE, FALSE))
                 /\ UNCHANGED <<athletes, nextId>>
    /\ UNCHANGED <<users, trainers>>
    /\ EmailFrame

\* PATCH /api/athletes/[id], to the update: getSession, findUnique, the
\* ownership check.
AthletePatchFind ==
    /\ CanCreate
    /\ \E principal \in EmailPrincipals, id \in PatchedAthleteIds,
          body \in AthletePatchBodies :
        LET gate == IF principal.role = "none" THEN 401
                    ELSE IF RowsById(athletes, id) = {} THEN 404
                    ELSE IF /\ principal.role = "TRAINER"
                            /\ \E a \in RowsById(athletes, id) :
                                    a.trainerId # principal.trainerId
                         THEN 403
                         ELSE 0
        IN  reqs' = Started(EmailRequest("patchAthlete", principal, id, body,
                                         IF gate = 0 THEN "update" ELSE "done",
                                         gate, FALSE, FALSE))
    /\ UNCHANGED <<athletes, users, trainers, nextId>>
    /\ EmailFrame

\* The row with the truthy fields of the body written over it.
PatchedAthlete(row, body) ==
    [row EXCEPT !.firstName = IF body.firstName = "" THEN @ ELSE body.firstName,
                !.email = IF body.email = NoEmail THEN @ ELSE body.email]

\* db.athlete.update({ where: { id }, data: updateData }); a violation of the
\* unique index on the email is answered with 409.
AthletePatchUpdate(i) ==
    /\ reqs.slot[i].pc = "update"
    /\ LET r == reqs.slot[i]
           taken == \E a \in athletes : a.id # r.id /\ a.email = r.body.email
           after == {IF a.id = r.id THEN PatchedAthlete(a, r.body) ELSE a : a \in athletes}
       IN  IF taken
           THEN /\ reqs' = Stepped(i, [r EXCEPT !.pc = "done", !.status = 409,
                                                !.taken = TRUE])
                /\ UNCHANGED athletes
           ELSE /\ athletes' = after
                /\ reqs' = Stepped(i, [r EXCEPT !.pc = "done", !.status = 200,
                                                !.changed = after # athletes])
    /\ UNCHANGED <<users, trainers, nextId>>
    /\ EmailFrame

\* email || the address made of the name
PostTrainerEmail(body) ==
    IF body.email = NoEmail THEN GeneratedTrainerEmail(body.name) ELSE body.email

\* POST /api/admin/trainers, to the create: getSession, the role, the name,
\* and the findUnique by email, which answers 409 for a stored email.
TrainerPostFind ==
    /\ CanCreate
    /\ \E principal \in EmailPrincipals, body \in TrainerPostBodies :
        LET existing == \E u \in users : u.email = PostTrainerEmail(body)
            gate == IF principal.role = "none" THEN 401
                    ELSE IF principal.role # "ADMIN" THEN 403
                    ELSE IF body.name = "" THEN 400
                    ELSE IF existing THEN 409
                    ELSE 0
        IN  reqs' = Started(EmailRequest("postTrainer", principal, Null, body,
                                         IF gate = 0 THEN "create" ELSE "done",
                                         gate, gate = 409, FALSE))
    /\ UNCHANGED <<athletes, users, trainers, nextId>>
    /\ EmailFrame

\* The status of the catch block of POST /api/admin/trainers.
TrainerCatchStatus == 500

\* db.user.create with its nested trainer; an error of the create, the
\* violation of the unique index on the email too, goes to the catch block.
TrainerPostCreate(i) ==
    /\ reqs.slot[i].pc = "create"
    /\ LET r == reqs.slot[i]
           email == PostTrainerEmail(r.body)
           userId == NewId("u", nextId + 1)
       IN  IF \E u \in users : u.email = email
           THEN /\ reqs' = Stepped(i, [r EXCEPT !.pc = "done",
                                                !.status = TrainerCatchStatus,
                                                !.taken = TRUE])
                /\ UNCHANGED <<users, trainers, nextId>>
           ELSE /\ users' = users \cup
                        {UserRow(userId, email, HashPassword("trainer123"),
                                 r.body.name, "TRAINER")}
                /\ trainers' = trainers \cup {TrainerRow(NewId("t", nextId + 2), userId)}
                /\ nextId' = nextId + 2
                /\ reqs' = Stepped(i, [r EXCEPT !.pc = "done", !.status = 200,
                                                !.changed = TRUE])
    /\ UNCHANGED athletes
    /\ EmailFrame

InitEmails ==
    /\ ParseIdle
    /\ athletes = SeedAthletes
    /\ sessions = {}
    /\ nextId = 10
    /\ now = [day |-> 15, slot |-> LastSlot - 1]
    /\ users = AdminSeedUsers
    /\ trainers = AdminSeedTrainers
    /\ checkIns = {}
    /\ RecurIdle
    /\ CallsIdle

NextEmails ==
    \/ AthletePost
    \/ AthletePatchFind
    \/ \E i \in ReqSlots : AthletePatchUpdate(i)
    \/ TrainerPostFind
    \/ \E i \in ReqSlots : TrainerPostCreate(i)
    \/ ClockTick

SpecEmails == InitEmails /\ [][NextEmails]_vars

(***************************************************************************)
(* C24.  A request to create an athlete, to change an athlete's email or   *)
(* to create a trainer with an email that is already stored returns 409    *)
(* and adds or changes no row, under any interleaving of such requests.    *)
(***************************************************************************)
EmailRequestsDone(kinds) ==
    {reqs.slot[i] : i \in {j \in ReqSlots : /\ reqs.slot[j].pc = "done"
                                            /\ reqs.slot[j].kind \in kinds}}

ConflictAnswered(r) == r.taken => (r.status = 409 /\ ~r.changed)

C24_StoredEmailConflict ==
    \A r \in EmailRequestsDone(EmailKinds) : ConflictAnswered(r)

\* The two athlete routes answer the storage conflict with 409.
C24_AthleteEmailConflict ==
    \A r \in EmailRequestsDone({"postAthlete", "patchAthlete"}) : ConflictAnswered(r)

\* No request leaves two rows with one email.
C24_EmailsUnique ==
    /\ UniqueBy(users, "email")
    /\ UniqueBy(athletes, "email")

(***************************************************************************)
(* createRecurringSessions on every session descriptor that passes the     *)
(* schema: recurrencePattern is one of the four patterns, null, or absent. *)
(* The loop of generateRecurringSessions has no bound of its own; the      *)
(* model stops following a call after MaxPasses children, which is more    *)
(* than the longest run of a call with a pattern creates (a daily pattern  *)
(* over the default horizon).                                              *)
(***************************************************************************)
MaxPasses == 95

\* recurrencePattern: the enum, nullable, optional; null is passed on as
\* undefined.
SchemaPatterns == RecurrencePatterns \cup {Undefined}

\* The end dates: none (the default horizon), after the start, before it.
LoopEndStrings == {UndefinedDateString, IsoString(0, 20, 1), IsoString(0, 14, 1)}

LoopSessionData ==
    {SessionDesc("a1", <<"John", "Smith">>, FALSE, IsoString(0, 15, 1), p, e) :
        p \in SchemaPatterns, e \in LoopEndStrings}

InitLoop ==
    /\ ParseIdle
    /\ athletes = SeedAthletes
    /\ sessions = {}
    /\ nextId = 0
    /\ now = [day |-> 15, slot |-> 0]
    /\ users = {}
    /\ trainers = {}
    /\ checkIns = {}
    /\ RecurIdle
    /\ CallsIdle

\* createRecurringSessions(data.session!, trainerId) is called.
LoopCall ==
    /\ recur.pc = "idle"
    /\ \E sd \in LoopSessionData :
        recur' = [pc |-> "athlete", sessionData |-> sd, trainerId |-> "t1",
                  athleteId |-> sd.athleteId, parentId |-> Null,
                  currentDate |-> NoDate, endDate |-> NoDate,
                  children |-> <<>>, result |-> ExecResult(FALSE, "", Undefined)]
    /\ UNCHANGED <<parseVars, dbVars, callVars>>

\* One turn of the loop, for as long as the call is followed.
LoopCreateChild ==
    /\ recur.pc = "loop"
    /\ Len(recur.children) < MaxPasses
    /\ RecurCreateChild

NextLoop ==
    \/ LoopCall
    \/ RecurResolveAthlete
    \/ RecurCreateParent
    \/ LoopCreateChild
    \/ RecurReturn

SpecLoop == InitLoop /\ [][NextLoop]_vars

\* The handler is an async function on the event loop: a step that can be
\* taken is taken.
SpecLoopFair == SpecLoop /\ WF_vars(NextLoop)

HasPattern == recur.pc # "idle" /\ recur.sessionData.recurrencePattern # Undefined

\* With one of the four patterns the call returns, and before MaxPasses.
C25_PatternedTerminates ==
    <>(recur.pc = "done" \/ (recur.pc # "idle" /\ ~HasPattern))

C25_PatternedBelowBound == HasPattern => Len(recur.children) < MaxPasses

\* Every turn of the loop moves the date forward.
TurnAdvances ==
    (recur.pc = "loop" /\ recur'.pc = "loop"
        /\ Len(recur'.children) > Len(recur.children)) =>
        TimeValue(recur'.currentDate) > TimeValue(recur.currentDate)

C25_EveryTurnAdvances == [][TurnAdvances]_vars

\* Without a pattern no turn moves the date.
TurnStaysWithoutPattern ==
    (recur.pc = "loop" /\ recur'.pc = "loop" /\ ~HasPattern
        /\ Len(recur'.children) > Len(recur.children)) =>
        recur'.currentDate = recur.currentDate

C25_NoPatternNoAdvance == [][TurnStaysWithoutPattern]_vars

(***************************************************************************)
(* The admin dashboard (AdminDashboard) in front of POST /api/admin/parse. *)
(* The page keeps the typed text, the pending action and the last result;  *)
(* handlePreview asks for a preview and then executes, asks for            *)
(* confirmation, or shows a message; executeAction posts the text again    *)
(* with execute = true.  Each fetch is one call of the hosted model, and   *)
(* the model is free in what it replies to each.  The page's state is the  *)
(* variable exec; admin is the endpoint's last call.                       *)
(***************************************************************************)
Described(op, description) == [op EXCEPT !.description = description]

DashboardOps ==
    [deleteOne |-> Described(Op("Session", "delete", [where |-> [id |-> "s3"]]),
                             "Delete the session"),
     deleteMany |-> Described(Op("Session", "deleteMany", [where |-> [athleteId |-> "a1"]]),
                              "Clear the schedule of John Smith"),
     cancelMany |-> Described(Op("Session", "updateMany",
                                 [where |-> [trainerId |-> "t1"],
                                  data |-> [cancelled |-> TRUE]]),
                              "Cancel the sessions of Mike"),
     rename |-> Described(Op("Athlete", "update",
                             [where |-> [id |-> "a1"], data |-> [firstName |-> "Johnny"]]),
                          "Rename John to Johnny"),
     list |-> Described(Op("Session", "findMany", [where |-> [trainerId |-> "t1"]]),
                        "List the sessions of Mike")]

\* op.description?.toLowerCase().includes(word), for the descriptions above
LowerIncludes(description, word) ==
    <<description, word>> \in {<<"Delete the session", "delete">>,
                               <<"Cancel the sessions of Mike", "cancel">>}

\* What the model replies to the text of the admin: a delete, the same
\* delete marked as a query, a deleteMany, a cancellation, a rename, a
\* listing, and a question back.
DashboardParses ==
    {AdminParseResultOf(<<DashboardOps.deleteOne>>, Null, FALSE),
     AdminParseResultOf(<<DashboardOps.deleteOne>>, Null, TRUE),
     AdminParseResultOf(<<DashboardOps.deleteMany>>, Null, FALSE),
     AdminParseResultOf(<<DashboardOps.cancelMany>>, Null, FALSE),
     AdminParseResultOf(<<DashboardOps.rename>>, Null, FALSE),
     AdminParseResultOf(<<DashboardOps.list>>, Null, TRUE),
     AdminParseResultOf(<<>>, "Which session do you mean?", FALSE)}

DashboardOutcomes ==
    {ModelText(<<TokJson(pr)>>) : pr \in DashboardParses}
    \cup {ModelText(<<TokProse>>), ModelThrows("Connection error.")}

\* isDestructiveAction
isDestructiveAction(parsed) ==
    \E k \in 1..Len(parsed.operations) :
        \/ parsed.operations[k].method = "delete"
        \/ parsed.operations[k].method = "deleteMany"
        \/ LowerIncludes(parsed.operations[k].description, "delete")
        \/ LowerIncludes(parsed.operations[k].description, "remove")
        \/ LowerIncludes(parsed.operations[k].description, "cancel")

\* POST /api/admin/parse for the signed-in admin: the response, the batch the
\* endpoint ran, and the store and the id counter it leaves.
AdminParseFetch(outcome, execute, db, n) ==
    LET reply == AdminReplyGate(outcome)
        pr == JsonParse(StripFences(outcome.text)).value
        r == executeAdminAction(pr, db, n)
    IN  IF reply # NoValue
        THEN [response |-> reply, ran |-> NoValue, db |-> db, nextId |-> n]
        ELSE IF ~execute
        THEN [response |-> RouteResponse(200, TRUE, Undefined, TRUE, pr, NoValue),
              ran |-> NoValue, db |-> db, nextId |-> n]
        ELSE [response |-> RouteResponse(200, r.success, Undefined, FALSE, pr,
                                         [success |-> r.success, message |-> r.message]),
              ran |-> pr, db |-> r.db, nextId |-> r.nextId]

NoText == ""
CommandText == "delete the 9am session of John"

\* The page: nothing typed, nothing pending, nothing shown.
DashboardIdle ==
    [pc |-> "ready", input |-> NoText, pendingAction |-> NoValue, result |-> NoValue,
     previews |-> 0, running |-> NoValue, last |-> NoValue]

PendingAction(parsed, input) ==
    [t |-> "pending", parsed |-> parsed, input |-> input, isDestructive |-> TRUE]

\* A call of executeAction in progress: its arguments, and whether the admin
\* confirmed it.
Running(parsed, input, confirmed) ==
    [t |-> "running", parsed |-> parsed, input |-> input, confirmed |-> confirmed]

Message(success, message) == [t |-> "result", success |-> success, message |-> message]

DashboardFrame == UNCHANGED <<parseVars, now, recurVars, reqs>>

\* The admin types a command.
TypeCommand ==
    /\ exec.pc = "ready"
    /\ exec.input = NoText
    /\ exec' = [exec EXCEPT !.input = CommandText]
    /\ UNCHANGED <<dbVars, admin>>
    /\ DashboardFrame

\* handlePreview, to its call of executeAction if it makes one.
HandlePreview ==
    /\ exec.pc = "ready"
    /\ exec.input # NoText
    /\ exec.previews < MaxCalls
    /\ \E outcome \in DashboardOutcomes :
        \E f \in {AdminParseFetch(outcome, FALSE, Db, nextId)} :
            LET data == f.response
                shown(result, pending) ==
                    [exec EXCEPT !.previews = @ + 1, !.result = result,
                                 !.pendingAction = pending]
                run(parsed) ==
                    [exec EXCEPT !.previews = @ + 1, !.result = NoValue,
                                 !.pendingAction = NoValue, !.pc = "execute",
                                 !.running = Running(parsed, exec.input, FALSE)]
            IN  /\ admin' = [pc |-> "executed", execute |-> FALSE, outcome |-> outcome,
                             response |-> f.response, ran |-> f.ran]
                /\ exec' =
                    IF data.success /\ data.parsed # NoValue
                    THEN IF Truthy(data.parsed.clarificationNeeded)
                         THEN shown(Message(FALSE, data.parsed.clarificationNeeded), NoValue)
                         ELSE IF data.parsed.isQuery THEN run(data.parsed)
                         ELSE IF isDestructiveAction(data.parsed)
                         THEN shown(NoValue, PendingAction(data.parsed, exec.input))
                         ELSE run(data.parsed)
                    ELSE shown(Message(FALSE, IF Truthy(data.error) THEN data.error
                                              ELSE "Could not understand that command"),
                               NoValue)
    /\ UNCHANGED dbVars
    /\ DashboardFrame

\* handleConfirm: executeAction(pendingAction.parsed, pendingAction.input)
HandleConfirm ==
    /\ exec.pc = "ready"
    /\ exec.pendingAction # NoValue
    /\ exec' = [exec EXCEPT !.pc = "execute",
                    !.running = Running(exec.pendingAction.parsed,
                                        exec.pendingAction.input, TRUE)]
    /\ UNCHANGED <<dbVars, admin>>
    /\ DashboardFrame

\* handleCancel
HandleCancel ==
    /\ exec.pc = "ready"
    /\ exec.pendingAction # NoValue
    /\ exec' = [exec EXCEPT !.pendingAction = NoValue, !.result = NoValue]
    /\ UNCHANGED <<dbVars, admin>>
    /\ DashboardFrame

\* The page's executeAction: the text is posted with execute = true, the
\* endpoint asks the model and runs what it replies, and the page shows the
\* outcome.  last keeps the action the page sent and the batch the endpoint
\* ran.
DashboardExecute ==
    /\ exec.pc = "execute"
    /\ \E outcome \in DashboardOutcomes :
        \E f \in {AdminParseFetch(outcome, TRUE, Db, nextId)} :
            LET data == f.response
                ok == data.success /\ data.execution # NoValue /\ data.execution.success
            IN  /\ StoreIs(f.db)
                /\ nextId' = f.nextId
                /\ UNCHANGED now
                /\ admin' = [pc |-> "executed", execute |-> TRUE, outcome |-> outcome,
                             response |-> f.response, ran |-> f.ran]
                /\ exec' = [exec EXCEPT
                        !.pc = "ready",
                        !.running = NoValue,
                        !.last = [t |-> "sent", parsed |-> exec.running.parsed,
                                  confirmed |-> exec.running.confirmed, ran |-> f.ran],
                        !.input = IF ok THEN NoText ELSE @,
                        !.pendingAction = IF ok THEN NoValue ELSE @,
                        !.result =
                            IF ok THEN Message(TRUE, data.execution.message)
                            ELSE Message(FALSE,
                                    IF data.execution # NoValue THEN data.execution.message
                                    ELSE IF Truthy(data.error) THEN data.error
                                    ELSE "Command failed")]
    /\ UNCHANGED <<parseVars, recurVars, reqs>>

InitDashboard ==
    /\ ParseIdle
    /\ users = AdminSeedUsers
    /\ trainers = AdminSeedTrainers
    /\ athletes = SeedAthletes
    /\ sessions = AdminSeedSessions(FALSE)
    /\ checkIns = {}
    /\ nextId = 10
    /\ now = [day |-> 15, slot |-> 0]
    /\ RecurIdle
    /\ exec = DashboardIdle
    /\ reqs = ReqsIdleState
    /\ admin = AdminIdleState

NextDashboard ==
    \/ TypeCommand
    \/ HandlePreview
    \/ HandleConfirm
    \/ HandleCancel
    \/ DashboardExecute

SpecDashboard == InitDashboard /\ [][NextDashboard]_vars

(***************************************************************************)
(* C26.  In the admin dashboard a parsed action that contains a delete or  *)
(* deleteMany operation is sent for execution only after the admin has     *)
(* confirmed the pending action: no path from handlePreview executes it    *)
(* before the confirmation, whatever the value of isQuery.                 *)
(***************************************************************************)
HasDelete(parsed) ==
    \E k \in 1..Len(parsed.operations) :
        parsed.operations[k].method \in {"delete", "deleteMany"}

\* The action the page is sending, or has sent, for execution.
SentForExecution ==
    (IF exec.running # NoValue THEN {exec.running} ELSE {})
    \cup (IF exec.last # NoValue THEN {exec.last} ELSE {})

C26_DeleteOnlyAfterConfirm ==
    \A sent \in SentForExecution : HasDelete(sent.parsed) => sent.confirmed

\* A delete that is not marked as a query waits for the confirmation.
C26_PlainDeleteAfterConfirm ==
    \A sent \in SentForExecution :
        (HasDelete(sent.parsed) /\ ~sent.parsed.isQuery) => sent.confirmed

(***************************************************************************)
(* C27.  The operation list that the admin endpoint executes for a request *)
(* with execute = true is the list that the preceding preview              *)
(* (execute = false) of the same text returned and the admin was shown.    *)
(***************************************************************************)
\* The page sent an action for execution and the endpoint ran a batch.
EndpointRan == exec.last # NoValue /\ exec.last.ran # NoValue

C27_ExecutesThePreviewedList ==
    EndpointRan => exec.last.ran.operations = exec.last.parsed.operations

\* The batch the endpoint runs is the one it parsed from the reply to its own
\* call of the model.
C27_ExecutesItsOwnParse ==
    (admin.pc = "executed" /\ admin.ran # NoValue) =>
        admin.ran = JsonParse(StripFences(admin.outcome.text)).value

(***************************************************************************)
(* Undo of create-only batches.  The batch runs through                    *)
(* executeAdminAction, which appends one delete descriptor per created row *)
(* in creation order; the client posts that list to POST /api/admin/undo,  *)
(* which replays it front to back.  A later operation of a batch refers to *)
(* a row created earlier in it by the id the earlier operation sets.       *)
(***************************************************************************)
NewAthleteId == "a20"

NewTrainerId == "t20"

NewAthleteOp ==
    Op("Athlete", "create",
       [data |-> [id |-> NewAthleteId, firstName |-> "Zoe", lastName |-> "Park",
                  email |-> StoredEmail("zoe", "park"), trainerId |-> "t1"]])

SessionForNewAthleteOp ==
    Op("Session", "create",
       [data |-> [trainerId |-> "t1", athleteId |-> NewAthleteId,
                  scheduledAt |-> IsoString(0, 18, 1)]])

NewUserWithTrainerOp ==
    Op("User", "create",
       [data |-> [email |-> StoredEmail("nina", "ray"), passwordHash |-> HashPlaceholder,
                  name |-> "Nina Ray", role |-> "TRAINER",
                  trainer |-> [create |-> [id |-> NewTrainerId]]]])

AthleteOfNewTrainerOp ==
    Op("Athlete", "create",
       [data |-> [firstName |-> "Ivy", lastName |-> "Cole",
                  email |-> StoredEmail("ivy", "cole"), trainerId |-> NewTrainerId]])

SessionForSeedAthleteOp ==
    Op("Session", "create",
       [data |-> [trainerId |-> "t1", athleteId |-> "a1",
                  scheduledAt |-> IsoString(0, 18, 1)]])

UndoCreateOps ==
    {NewAthleteOp, SessionForNewAthleteOp, NewUserWithTrainerOp, AthleteOfNewTrainerOp,
     SessionForSeedAthleteOp}

CreateBatches == UNION {[1..k -> UndoCreateOps] : k \in 1..MaxOps}

\* POST /api/admin/parse with execute = true, for a batch of creates.
CreateBatchExecute ==
    /\ admin.pc = "idle"
    /\ \E b \in CreateBatches :
        \E r \in {executeAdminAction(AdminParseResultOf(b, Null, FALSE), Db, nextId)} :
            /\ StoreIs(r.db)
            /\ nextId' = r.nextId
            /\ admin' = [pc |-> "executed",
                         parseResult |-> AdminParseResultOf(b, Null, FALSE),
                         before |-> Db, beforeId |-> nextId, afterExec |-> r.db,
                         result |-> [success |-> r.success, message |-> r.message,
                                     log |-> r.log, results |-> r.results,
                                     hasData |-> r.hasData, data |-> r.data,
                                     undoOperations |-> r.undoOperations,
                                     failedAt |-> r.failedAt],
                         undo |-> NoUndoResponse]
    /\ UNCHANGED <<parseVars, now, recurVars, exec, reqs>>

NextUndo ==
    \/ CreateBatchExecute
    \/ AdminUndo

SpecUndo == InitAdmin /\ [][NextUndo]_vars

TableNames == {"user", "trainer", "athlete", "session", "checkIn"}

\* The rows the batch added to the store.
CreatedRows(t) == admin.afterExec[t] \ admin.before[t]

CreatedRowsGone == \A t \in TableNames : CreatedRows(t) \cap Db[t] = {}

SuccessfulCreateBatchUndone ==
    /\ UndoneByAdmin
    /\ BatchRan
    /\ admin.result.success
    /\ \A i \in 1..Len(BatchOps) : BatchOps[i].method = "create"

\* A later operation of the batch names a row an earlier one created.
RefersToCreated(batch) ==
    \E i \in 1..Len(batch), j \in 1..Len(batch) :
        /\ i < j
        /\ \/ /\ batch[i] = NewAthleteOp
              /\ batch[j] = SessionForNewAthleteOp
           \/ /\ batch[i] = NewUserWithTrainerOp
              /\ batch[j] = AthleteOfNewTrainerOp

\* C28: replaying, in the order returned, the undo list of a successful batch
\* of create operations deletes every row the batch created and reports
\* success, also when a later-created row references an earlier-created one.
C28_CreateBatchUndone ==
    SuccessfulCreateBatchUndone =>
        /\ admin.undo.status = 200
        /\ admin.undo.success
        /\ CreatedRowsGone

\* What does hold: a successful batch of creates none of which refers to a
\* row of the same batch is undone in full.
C28_UnrelatedCreatesUndone ==
    (SuccessfulCreateBatchUndone /\ ~RefersToCreated(BatchOps)) =>
        /\ admin.undo.status = 200
        /\ admin.undo.success
        /\ CreatedRowsGone
        /\ Db = admin.before

\* An Athlete followed by a Session for that athlete: the first delete of
\* the undo list is refused by Session_athleteId_fkey and nothing is deleted.
C28_AthleteThenSessionKept ==
    (SuccessfulCreateBatchUndone /\ BatchOps = <<NewAthleteOp, SessionForNewAthleteOp>>) =>
        /\ admin.undo.status = 500
        /\ Db = admin.afterExec

\* A User with nested Trainer followed by that trainer's Athlete: the first
\* delete cascades to the athlete, the second finds no row and the endpoint
\* answers 500 although every created row is gone.
C28_CascadedThenMissing ==
    (SuccessfulCreateBatchUndone
        /\ BatchOps = <<NewUserWithTrainerOp, AthleteOfNewTrainerOp>>) =>
        /\ admin.undo.status = 500
        /\ ~admin.undo.success
        /\ CreatedRowsGone

C28_ReferencingBatchUndone ==
    SuccessfulCreateBatchUndone /\ RefersToCreated(BatchOps)

(***************************************************************************)
(* Concurrent check-ins.  POST /api/checkin is three storage calls with an *)
(* await between them: the lookup of today's session, the create of the    *)
(* CheckIn row and the update of the session; requests interleave at the   *)
(* awaits.                                                                 *)
(***************************************************************************)
NextCheckIns ==
    \/ CheckInFind
    \/ CheckInCreate
    \/ CheckInComplete

SpecCheckIns == InitSessions /\ [][NextCheckIns]_vars

\* The athlete with one eligible session today, and that session.
OneSessionAthlete == "a2"

OneSession == "sB"

\* Two check-in requests of the athlete were in progress together and both
\* have been answered.
TwoCheckInsAnswered ==
    /\ reqs.started = 2
    /\ \A i \in ReqSlots :
        /\ reqs.slot[i].pc = "done"
        /\ reqs.slot[i].athleteId = OneSessionAthlete

CheckInsOf(athleteId) == {c \in checkIns : c.athleteId = athleteId}

CheckInsFor(sessionId) == {c \in checkIns : c.sessionId = sessionId}

\* C29: under any interleaving of two check-in requests for the same
\* existing athlete who has one eligible session today, each request records
\* exactly one CheckIn row and returns success, and the session ends
\* completed with exactly one CheckIn referencing it.
C29_BothCheckInsRecorded ==
    TwoCheckInsAnswered =>
        /\ \A i \in ReqSlots : reqs.slot[i].status = 200 /\ reqs.slot[i].success
        /\ Cardinality(CheckInsOf(OneSessionAthlete)) = 2
        /\ \A x \in RowsById(sessions, OneSession) : x.completed
        /\ Cardinality(CheckInsFor(OneSession)) = 1

\* What does hold: when both requests found the session before either wrote,
\* one is answered 200 and the other 500, one CheckIn row exists, and the
\* session ends completed.
C29_RacingCheckInRefused ==
    (TwoCheckInsAnswered /\ \A i \in ReqSlots : reqs.slot[i].found = OneSession) =>
        /\ \E i \in ReqSlots, j \in ReqSlots :
            /\ reqs.slot[i].status = 200 /\ reqs.slot[i].success
            /\ reqs.slot[j].status = 500 /\ ~reqs.slot[j].success
        /\ Cardinality(CheckInsOf(OneSessionAthlete)) = 1
        /\ \A x \in RowsById(sessions, OneSession) : x.completed
        /\ Cardinality(CheckInsFor(OneSession)) = 1

\* CheckIn_sessionId_key: no session has two CheckIn rows.
C29_OneCheckInPerSession ==
    \A c \in checkIns, d \in checkIns :
        (c.sessionId # Null /\ c.sessionId = d.sessionId) => c = d

(***************************************************************************)
(* Ownership and state checks of the session routes.  A request is         *)
(* answered at its read step when a check refuses it; the step that starts *)
(* the request is the one that increments reqs.started and fills the slot  *)
(* StartSlot.                                                              *)
(***************************************************************************)
SessionRouteKinds == {"patch", "delete", "complete"}

\* The request this step starts.
StartedRequest == reqs'.slot[StartSlot]

StartsSessionRequest(kinds) ==
    /\ reqs'.started = reqs.started + 1
    /\ StartedRequest.kind \in kinds
    /\ StartedRequest.principal.role = "TRAINER"

\* A TRAINER's request on a session of another trainer is answered 403 in
\* the step that reads the session, and the step writes nothing.
ForeignRequestRefused ==
    (/\ StartsSessionRequest(SessionRouteKinds)
     /\ \E x \in RowsById(sessions, StartedRequest.sid) :
            x.trainerId # StartedRequest.principal.trainerId)
    => /\ StartedRequest.pc = "done"
       /\ StartedRequest.status = 403
       /\ ~StartedRequest.success
       /\ sessions' = sessions

\* The owner's complete request on a cancelled or completed session is
\* answered 400 in the step that reads the session, and writes nothing.
ClosedSessionRefused ==
    (/\ StartsSessionRequest({"complete"})
     /\ \E x \in RowsById(sessions, StartedRequest.sid) :
            /\ x.trainerId = StartedRequest.principal.trainerId
            /\ x.cancelled \/ x.completed)
    => /\ StartedRequest.pc = "done"
       /\ StartedRequest.status = 400
       /\ ~StartedRequest.success
       /\ sessions' = sessions

\* C30: for a principal with role TRAINER, a PATCH, DELETE or complete
\* request on a Session whose trainerId differs from the principal's
\* trainerId returns 403 and leaves that session unchanged; a complete
\* request on a cancelled or already completed session returns 400 and
\* leaves it unchanged.
C30_ForeignAndClosedRefused == [][ForeignRequestRefused /\ ClosedSessionRefused]_vars

\* A refused request is finished: it has no write step left to take.
C30_RefusedNeverWrites ==
    \A i \in ReqSlots :
        (reqs.slot[i].pc = "write") =>
            \/ reqs.slot[i].principal.role # "TRAINER"
            \/ reqs.slot[i].kind \notin SessionRouteKinds
            \/ \A x \in RowsById(sessions, reqs.slot[i].sid) :
                    x.trainerId = reqs.slot[i].principal.trainerId

\* One slot holds a 403 answer to a TRAINER's request on another trainer's
\* session, the other a 400 answer to the owner's complete request on a
\* session that is cancelled or completed.
C30_Witness ==
    \E i \in ReqSlots, j \in ReqSlots :
        /\ reqs.slot[i].pc = "done"
        /\ reqs.slot[i].kind \in SessionRouteKinds
        /\ reqs.slot[i].principal.role = "TRAINER"
        /\ reqs.slot[i].status = 403
        /\ \E x \in RowsById(sessions, reqs.slot[i].sid) :
                x.trainerId # reqs.slot[i].principal.trainerId
        /\ reqs.slot[j].pc = "done"
        /\ reqs.slot[j].kind = "complete"
        /\ reqs.slot[j].principal.role = "TRAINER"
        /\ reqs.slot[j].status = 400
        /\ \E x \in RowsById(sessions, reqs.slot[j].sid) :
                /\ x.trainerId = reqs.slot[j].principal.trainerId
                /\ x.cancelled \/ x.completed

====
